---- MODULE Spec2Model ----
(***************************************************************************)
(* Device-serial resolution of the expo-android MCP server (adb.ts,        *)
(* config.ts, index.ts and the serial handling of tools/android.ts).       *)
(*                                                                         *)
(* JavaScript values are records [k, v]: k is the type tag ("undefined",   *)
(* "null", "string") and v the characters of a string, one per element.    *)
(* One step of the model is one run-to-completion turn of the event loop:  *)
(* a handler runs from a suspension point (an adb subprocess finishing)    *)
(* to its next one.                                                        *)
(***************************************************************************)
EXTENDS Integers, Sequences, FiniteSets, TLC

VARIABLES
    ADB_SERIAL,       \* config.ts: the exported environment default
    serialOverride,   \* adb.ts: let serialOverride
    resolvedSerial,   \* adb.ts: let resolvedSerial (the memo)
    resolvingSerial,  \* adb.ts: let resolvingSerial (the in-flight promise)
    devices,          \* what `adb devices -l` reports: serial -> state
    phase,            \* index.ts: "boot" until warmUpAdb is over
    call,             \* the tool invocations / API calls that are suspended
    returned,         \* what the latest turn handed back to its callers
    resolvedFrom,     \* history: the requested serial the memo was computed from
    tool              \* tools/android.ts: the locals of the tool handler followed

vars == <<ADB_SERIAL, serialOverride, resolvedSerial,
          resolvingSerial, devices, phase, call, returned, resolvedFrom,
          tool>>

----------------------------------------------------------------------------
(* Bounds *)

NumCalls == 2      \* tool invocations in progress at the same time

Procs == 1..NumCalls

----------------------------------------------------------------------------
(* Values and strings *)

Undef == [k |-> "undefined", v |-> <<>>]
Null == [k |-> "null", v |-> <<>>]
Str(s) == [k |-> "string", v |-> s]

\* JavaScript truthiness of a string | null | undefined value
Truthy(x) == x.k = "string" /\ x.v # <<>>

AUTO == <<"a", "u", "t", "o">>
D1 == <<"d", "1">>
D2 == <<"d", "2">>

D3 == <<"d", "3">>
D4 == <<"d", "4">>
AllSerials == <<D1, D2, D3, D4>>

\* the devices that can be attached
DeviceSerials == {D1, D2}

\* spellings of the token and of a serial, as a caller may pass them
AutoSpelled == <<"A", "u", "T", "o", " ">>
D1Spelled == <<" ", "d", "1">>

IsWhitespace(c) == c = " "

UpperCase ==
    <<"A", "B", "C", "D", "E", "F", "G", "H", "I", "J", "K", "L", "M",
      "N", "O", "P", "Q", "R", "S", "T", "U", "V", "W", "X", "Y", "Z">>
LowerCase ==
    <<"a", "b", "c", "d", "e", "f", "g", "h", "i", "j", "k", "l", "m",
      "n", "o", "p", "q", "r", "s", "t", "u", "v", "w", "x", "y", "z">>

toLowerCaseChar(c) ==
    IF \E i \in 1..Len(UpperCase) : UpperCase[i] = c
    THEN LowerCase[CHOOSE i \in 1..Len(UpperCase) : UpperCase[i] = c]
    ELSE c

toLowerCase(s) == [i \in 1..Len(s) |-> toLowerCaseChar(s[i])]

RECURSIVE trimStart(_)
trimStart(s) ==
    IF s # <<>> /\ IsWhitespace(Head(s)) THEN trimStart(Tail(s)) ELSE s

RECURSIVE trimEnd(_)
trimEnd(s) ==
    IF s # <<>> /\ IsWhitespace(s[Len(s)])
    THEN trimEnd(SubSeq(s, 1, Len(s) - 1))
    ELSE s

trim(s) == trimEnd(trimStart(s))

\* String.prototype.includes
includes(s, sub) ==
    \E i \in 0..(Len(s) - Len(sub)) : SubSeq(s, i + 1, i + Len(sub)) = sub

----------------------------------------------------------------------------
(* config.ts *)

\* export const ADB_SERIAL =
\*   serialEnv && serialEnv.toLowerCase() !== 'auto' ? serialEnv : undefined;
ConfigAdbSerial(env) ==
    IF Truthy(env) /\ toLowerCase(env.v) # AUTO THEN env ELSE Undef

----------------------------------------------------------------------------
(* tools/android.ts *)

normalizeSerial_CaseSensitive(serial) ==
    IF ~Truthy(serial) THEN Undef
    ELSE LET trimmed == trim(serial.v)
         IN  IF trimmed = <<>> \/ trimmed = AUTO THEN Undef ELSE Str(trimmed)

\* function normalizeSerial(serial?: string)
normalizeSerial(serial) ==
    IF ~Truthy(serial) THEN Undef
    ELSE LET trimmed == trim(serial.v)
         IN  IF trimmed = <<>> \/ toLowerCase(trimmed) = AUTO
             THEN Undef
             ELSE Str(trimmed)


\* UIElement, as far as the tool helpers read it
El(class, clickable, checkable, scrollable) ==
    [class |-> class, clickable |-> clickable, checkable |-> checkable,
     scrollable |-> scrollable]

PROGRESSBAR == <<"p", "r", "o", "g", "r", "e", "s", "s", "b", "a", "r">>

\* function isInteractive(element: UIElement)
isInteractive(element) ==
    element.clickable \/ element.checkable \/ element.scrollable

\* function isOnlyProgress(elements: UIElement[])
isOnlyProgress(elements) ==
    IF Len(elements) = 0 THEN TRUE
    ELSE \A i \in 1..Len(elements) :
             includes(toLowerCase(elements[i].class), PROGRESSBAR)

\* elements.filter(isInteractive).length
interactiveCount(elements) ==
    Cardinality({i \in 1..Len(elements) : isInteractive(elements[i])})

shouldRetry_IgnoresOnlyInteractive(elements, onlyInteractive) ==
    Len(elements) = 0 \/ isOnlyProgress(elements)

\* const shouldRetry = elements.length === 0 || isOnlyProgress(elements) ||
\*   (onlyInteractive === true && interactiveCount === 0);
shouldRetry(elements, onlyInteractive) ==
    \/ Len(elements) = 0
    \/ isOnlyProgress(elements)
    \/ (onlyInteractive = "true" /\ interactiveCount(elements) = 0)

----------------------------------------------------------------------------
(* adb.ts: pure parts *)

NoMsg == [kind |-> "none", requested |-> <<>>, serials |-> {}]
Msg(kind, requested, serials) ==
    [kind |-> kind, requested |-> requested, serials |-> serials]

\* the value setAdbSerialOverride(serial) assigns to serialOverride
OverrideValue(serial) ==
    IF serial.k = "undefined" THEN Undef
    ELSE IF serial.k = "null" THEN Null
    ELSE LET trimmed == trim(serial.v)
         IN  IF toLowerCase(trimmed) = AUTO THEN Null ELSE Str(trimmed)

RequestedSerial_EnvFirst(override, envDefault) ==
    IF Truthy(envDefault) THEN [serial |-> envDefault, source |-> "env"]
    ELSE IF override.k # "undefined"
    THEN [serial |-> override, source |-> "override"]
    ELSE [serial |-> Null, source |-> "null"]

\* function getRequestedSerial(), as a function of the two values it reads
RequestedSerial(override, envDefault) ==
    IF override.k # "undefined" THEN [serial |-> override, source |-> "override"]
    ELSE IF Truthy(envDefault) THEN [serial |-> envDefault, source |-> "env"]
    ELSE [serial |-> Null, source |-> "null"]

getRequestedSerial == RequestedSerial(serialOverride, ADB_SERIAL)

\* adbListDevices(): the records of the attached devices
adbListDevices == devices

\* a filter that keeps every listed device, whatever its state
Online_AnyListed(list) == DOMAIN list

\* devices.filter((device) => device.state === 'device')
Online(list) == {d \in DOMAIN list : list[d] = "device"}

TheOnly(set) == CHOOSE d \in set : TRUE

\* if (online.length === 1): fall back to the only online device
FallbackAllowed_AnyOnline(online) == Cardinality(online) >= 1
FallbackAllowed(online) == Cardinality(online) = 1

\* if (online.length === 1): auto-select the only online device
AutoSelectable_AnyOnline(online) == Cardinality(online) >= 1
AutoSelectable(online) == Cardinality(online) = 1

BaseState(req) ==
    [threw |-> FALSE, serial |-> Null, source |-> "none",
     requestedSerial |-> req.serial, requestedSerialSource |-> req.source,
     warning |-> NoMsg, error |-> NoMsg]

\* throw new Error(message): the rejection of an async function
Throw(req, message) == [BaseState(req) EXCEPT !.threw = TRUE, !.error = message]

\* computeAdbSerialState({strict}), after `await adbListDevices()` returned
\* list; req is what getRequestedSerial() returned before the await.
computeAdbSerialState(req, strict, list) ==
    LET online == Online(list)
        requestedSerial == req.serial
        base == BaseState(req)
    IN  IF Truthy(requestedSerial)
        THEN IF requestedSerial.v \in online
             THEN [base EXCEPT !.serial = requestedSerial,
                               !.source = IF req.source = "null" THEN "env"
                                          ELSE req.source]
             ELSE IF FallbackAllowed(online)
             THEN [base EXCEPT !.serial = Str(TheOnly(online)),
                               !.source = "fallback",
                               !.warning = Msg("fallback", requestedSerial.v,
                                               {TheOnly(online)})]
             ELSE LET message ==
                          IF Cardinality(online) = 0
                          THEN Msg("requestedNotFoundNoDevices", requestedSerial.v, {})
                          ELSE Msg("requestedNotFound", requestedSerial.v, online)
                  IN  IF strict THEN Throw(req, message)
                      ELSE [base EXCEPT !.error = message]
        ELSE IF AutoSelectable(online)
        THEN [base EXCEPT !.serial = Str(TheOnly(online)), !.source = "auto"]
        ELSE LET message ==
                     IF Cardinality(online) = 0
                     THEN Msg("noDevices", <<>>, {})
                     ELSE Msg("multipleDevices", <<>>, online)
             IN  IF strict THEN Throw(req, message)
                 ELSE [base EXCEPT !.error = message]

assertSerialAvailable_AnyListed(serial, list) ==
    IF serial \in DOMAIN list THEN NoMsg
    ELSE Msg("deviceNotFound", serial, Online(list))

\* assertSerialAvailable(serial), after `await adbListDevices()` returned list
assertSerialAvailable(serial, list) ==
    IF serial \in Online(list) THEN NoMsg
    ELSE Msg("deviceNotFound", serial, Online(list))

\* an adb subprocess that fails (timeout, non-zero exit, ENOENT)
ExecError == Msg("commandFailed", <<>>, {})

----------------------------------------------------------------------------
(* State *)

DeviceStates == {"offline", "device"}

\* process.env.ADB_SERIAL: unset, the token, or a serial
EnvValues == {Undef, Str(<<"A", "U", "T", "O">>), Str(D2)}

\* the `serial` argument of a device command: absent, blank, the token, or a
\* serial
SerialArgs == {Undef, Str(<<" ">>), Str(AutoSpelled), Str(D2)}

\* the `serial` argument of setDevice: absent, the token, or a serial
SetDeviceArgs == {Undef, Str(AutoSpelled), Str(D1Spelled)}

\* the arguments setAdbSerialOverride is called with
OverrideArgs == {Undef, Null, Str(AutoSpelled), Str(D1Spelled)}

NoReq == [serial |-> Null, source |-> "null"]

NoPromise == [active |-> FALSE, strict |-> FALSE, req |-> NoReq]

\* op: the operation; pc: the await it is suspended at; arg: the tool's
\* `serial` argument; req: the requested serial computeAdbSerialState read
\* before suspending; stale (history): the resolution this caller is bound to
\* was started for another requested serial than the one current at the call;
\* started (history): this caller's resolveAdbSerial created the in-flight
\* resolution, whose enumeration runs until the caller resumes
Idle ==
    [op |-> "idle", pc |-> "idle", strict |-> FALSE, arg |-> Undef,
     req |-> NoReq, stale |-> FALSE, started |-> FALSE]

NoComputed == BaseState(NoReq)

\* What a call is handed when it ends. call: the caller; via: where the
\* answer came from ("memo", "resolution": the awaited in-flight resolution,
\* "state": getAdbSerialState's own computation, "assert":
\* assertSerialAvailable, "sync"); computed, strict: the outcome of the
\* computeAdbSerialState run behind it and that run's strict flag; res: the
\* state record or serial returned to the caller, or the error thrown at it;
\* ran, target: whether adbExec went on to run the command, and the serial it
\* passed with -s (Null: none)
Ret(c, via, strict, computed, res, target, ran) ==
    [call |-> c, via |-> via, strict |-> strict, computed |-> computed,
     res |-> res, target |-> target, ran |-> ran]

Nothing == {}

\* no tool handler is followed
NoTool == [name |-> "none"]

Init ==
    /\ \E serialEnv \in EnvValues : ADB_SERIAL = ConfigAdbSerial(serialEnv)
    /\ serialOverride = Undef
    /\ resolvedSerial = Undef
    /\ resolvingSerial = NoPromise
    /\ devices \in [DeviceSerials -> DeviceStates]
    /\ phase = "boot"
    /\ call = [p \in Procs |-> Idle]
    /\ returned = Nothing
    /\ resolvedFrom = NoReq
    /\ tool = NoTool

Config == <<ADB_SERIAL>>

\* a new invocation takes the first free slot (the slots are interchangeable)
Free(p) ==
    /\ phase = "serving"
    /\ call[p].pc = "idle"
    /\ \A q \in Procs : q < p => call[q].pc # "idle"

----------------------------------------------------------------------------
(* adb.ts: resolveAdbSerial and its callers' continuations *)

\* what `await resolveAdbSerial()` hands to its caller: state.serial, or the
\* rejection
Returned(r) ==
    IF r.threw THEN r ELSE [BaseState(NoReq) EXCEPT !.serial = r.serial]

\* The continuation of caller c once resolveAdbSerial has returned or thrown
\* r. adbExec goes on to adbExecRaw(serial ? ['-s', serial, ...args] : args);
\* warmUpAdb logs a rejection and goes on.
AfterResolve(c, via, strict, r) ==
    Ret(c, via, strict, r, Returned(r),
        IF c.op = "command" /\ ~r.threw /\ Truthy(r.serial) THEN r.serial ELSE Null,
        c.op = "command" /\ ~r.threw)

MemoHit_SerialOnly(strict) == Truthy(resolvedSerial) /\ strict

\* if (resolvedSerial !== undefined && strict) return resolvedSerial;
MemoHit(strict) == resolvedSerial # Undef /\ strict

\* a resolveAdbSerial that never finds a resolution in flight
Resolving_Never == FALSE

\* resolvingSerial is not null: the test of `if (!resolvingSerial)`
Resolving == resolvingSerial.active

\* resolveAdbSerial({strict}) up to its first suspension point, for caller c
\* in slot p
ResolveBegin(p, c, strict) ==
    LET d == [c EXCEPT !.strict = strict]
    IN  \/ /\ MemoHit(strict)
           /\ returned' =
                  {AfterResolve([d EXCEPT !.stale = resolvedFrom # getRequestedSerial],
                                "memo", FALSE,
                                [BaseState(resolvedFrom) EXCEPT !.serial = resolvedSerial])}
           /\ UNCHANGED <<resolvingSerial, call>>
        \/ /\ ~MemoHit(strict)
           /\ ~Resolving
           /\ resolvingSerial' =
                  [active |-> TRUE, strict |-> strict, req |-> getRequestedSerial]
           /\ call' = [call EXCEPT ![p] = [d EXCEPT !.pc = "awaitResolving",
                                                    !.started = TRUE]]
           /\ returned' = Nothing
        \/ /\ ~MemoHit(strict)
           /\ Resolving
           /\ call' = [call EXCEPT ![p] =
                  [d EXCEPT !.pc = "awaitResolving",
                            !.stale = resolvingSerial.req # getRequestedSerial]]
           /\ returned' = Nothing
           /\ UNCHANGED resolvingSerial

\* a closure that stores null when computeAdbSerialState rejects
Memoized_ErrorAsNull(r) == IF r.threw THEN Null ELSE r.serial

\* the memo after the closure of the in-flight resolution has run:
\* `resolvedSerial = state.serial` follows the await of computeAdbSerialState,
\* so a rejection skips it
Memoized(r) == IF r.threw THEN resolvedSerial ELSE r.serial

\* The adb subprocess of the in-flight resolution ends (ok: it succeeded).
\* The async closure stores the memo, the promise settles, and every caller
\* awaiting it runs its `finally { resolvingSerial = null }` in the same turn.
ResolvingDone(ok) ==
    /\ resolvingSerial.active
    /\ LET r == IF ok
                THEN computeAdbSerialState(resolvingSerial.req,
                                           resolvingSerial.strict, adbListDevices)
                ELSE Throw(resolvingSerial.req, ExecError)
       IN  /\ resolvedSerial' = Memoized(r)
           /\ resolvedFrom' = IF r.threw THEN resolvedFrom ELSE resolvingSerial.req
           /\ returned' =
                  {AfterResolve(call[p], "resolution", resolvingSerial.strict, r) :
                       p \in {q \in Procs : call[q].pc = "awaitResolving"}}
    /\ call' = [p \in Procs |->
           IF call[p].pc = "awaitResolving" THEN Idle ELSE call[p]]
    /\ resolvingSerial' = NoPromise
    /\ phase' = IF phase = "boot" THEN "serving" ELSE phase
    /\ UNCHANGED <<Config, tool, serialOverride, devices>>

\* export async function resolveAdbSerial({ strict = true } = {})
ResolveAdbSerial(p, strict) ==
    /\ Free(p)
    /\ ResolveBegin(p, [Idle EXCEPT !.op = "resolve"], strict)
    /\ UNCHANGED <<Config, tool, serialOverride, resolvedSerial, resolvedFrom,
                   devices, phase>>

----------------------------------------------------------------------------
(* index.ts: warmUpAdb *)

\* assertAdbAvailable() fails: process.exit(1)
WarmUpExit ==
    /\ phase = "boot"
    /\ call[1].pc = "idle"
    /\ phase' = "exited"
    /\ UNCHANGED <<Config, tool, serialOverride, resolvedSerial, resolvingSerial,
                   resolvedFrom, devices, call, returned>>

\* await resolveAdbSerial({ strict: false }) inside try/catch
WarmUpAdb ==
    /\ phase = "boot"
    /\ call[1].pc = "idle"
    /\ ResolveBegin(1, [Idle EXCEPT !.op = "warmUp"], FALSE)
    /\ UNCHANGED <<Config, tool, serialOverride, resolvedSerial, resolvedFrom,
                   devices, phase>>

----------------------------------------------------------------------------
(* adb.ts: adbExec, assertSerialAvailable *)

\* adbExec(args, {serial}) up to its first suspension point. serial is
\* options.serial: a non-blank string is checked against the device list,
\* anything else goes through resolveAdbSerial().
AdbExecBegin(p, c, serial) ==
    IF serial.k = "string" /\ trim(serial.v) # <<>>
    THEN /\ call' = [call EXCEPT ![p] =
                [c EXCEPT !.pc = "awaitAssert",
                          !.req = [serial |-> Str(trim(serial.v)), source |-> "call"]]]
         /\ returned' = Nothing
         /\ UNCHANGED resolvingSerial
    ELSE ResolveBegin(p, c, TRUE)

\* a tool that runs one device command (tap, swipe, inputText, keyEvent, ...)
\* with the tool's optional `serial` argument:
\* adbShell(..., {serial: normalizeSerial(serial)})
Command(p, arg) ==
    /\ Free(p)
    /\ AdbExecBegin(p, [Idle EXCEPT !.op = "command", !.arg = arg],
                    normalizeSerial(arg))
    /\ UNCHANGED <<Config, tool, serialOverride, resolvedSerial, resolvedFrom,
                   devices, phase>>

\* adbListDevices() of assertSerialAvailable ends; adbExec goes on to
\* adbExecRaw(['-s', explicitSerial, ...args]) unless the check threw
AssertDone(p, ok) ==
    /\ call[p].pc = "awaitAssert"
    /\ LET c == call[p]
           error == IF ok
                    THEN assertSerialAvailable(c.req.serial.v, adbListDevices)
                    ELSE ExecError
       IN  returned' =
               IF error = NoMsg
               THEN {Ret(c, "assert", FALSE, NoComputed, BaseState(NoReq),
                         c.req.serial, TRUE)}
               ELSE {Ret(c, "assert", FALSE, NoComputed, Throw(NoReq, error),
                         Null, FALSE)}
    /\ call' = [call EXCEPT ![p] = Idle]
    /\ UNCHANGED <<Config, tool, serialOverride, resolvedSerial, resolvingSerial,
                   resolvedFrom, devices, phase>>

----------------------------------------------------------------------------
(* adb.ts: getAdbSerialState, setAdbSerialOverride *)

\* getAdbSerialState({strict}) up to the `await adbListDevices()` inside
\* computeAdbSerialState, which has read getRequestedSerial() already
GetStateBegin(p, c, strict, override) ==
    call' = [call EXCEPT ![p] =
        [c EXCEPT !.pc = "awaitState", !.strict = strict,
                  !.req = RequestedSerial(override, ADB_SERIAL)]]

\* export async function getAdbSerialState({ strict = false } = {}); the
\* non-strict calls are those of doctor and setDevice below
GetAdbSerialState(p, strict) ==
    /\ Free(p)
    /\ GetStateBegin(p, [Idle EXCEPT !.op = "getState"], strict, serialOverride)
    /\ returned' = Nothing
    /\ UNCHANGED <<Config, tool, serialOverride, resolvedSerial, resolvingSerial,
                   resolvedFrom, devices, phase>>

\* the catch block of getAdbSerialState
CaughtState(error) ==
    [BaseState(getRequestedSerial) EXCEPT !.error = error]

\* adbListDevices() of computeAdbSerialState ends, getAdbSerialState returns
StateDone(p, ok) ==
    /\ call[p].pc = "awaitState"
    /\ LET c == call[p]
           r == IF ok THEN computeAdbSerialState(c.req, c.strict, adbListDevices)
                ELSE Throw(c.req, ExecError)
       IN  returned' =
               {Ret(c, "state", c.strict, r,
                    IF r.threw THEN CaughtState(r.error) ELSE r, Null, FALSE)}
    /\ call' = [call EXCEPT ![p] = Idle]
    /\ UNCHANGED <<Config, tool, serialOverride, resolvedSerial, resolvingSerial,
                   resolvedFrom, devices, phase>>

\* what a call of setAdbSerialOverride(serial) hands back: nothing
OverrideReturn(serial) ==
    Ret([Idle EXCEPT !.op = "setAdbSerialOverride", !.arg = serial],
        "sync", FALSE, NoComputed, BaseState(NoReq), Null, FALSE)

setAdbSerialOverride_KeepsMemoIfSame(serial) ==
    /\ serialOverride' = OverrideValue(serial)
    /\ IF OverrideValue(serial) = serialOverride
       THEN UNCHANGED <<resolvedSerial, resolvedFrom>>
       ELSE resolvedSerial' = Undef /\ resolvedFrom' = NoReq

\* the body of setAdbSerialOverride(serial?: string | null)
setAdbSerialOverride(serial) ==
    /\ serialOverride' = OverrideValue(serial)
    /\ resolvedSerial' = Undef
    /\ resolvedFrom' = NoReq

\* export function setAdbSerialOverride, called on its own
SetAdbSerialOverrideCall(serial) ==
    /\ phase = "serving"
    /\ setAdbSerialOverride(serial)
    /\ returned' = {OverrideReturn(serial)}
    /\ UNCHANGED <<Config, tool, resolvingSerial, devices, phase, call>>

----------------------------------------------------------------------------
(* tools/android.ts: setDevice, doctor *)

\* setAdbSerialOverride(serial ?? 'auto');
\* const serialState = await getAdbSerialState({ strict: false });
SetDevice(p, arg) ==
    /\ Free(p)
    /\ LET serial == IF arg.k = "undefined" THEN Str(AUTO) ELSE arg
       IN  /\ setAdbSerialOverride(serial)
           /\ GetStateBegin(p, [Idle EXCEPT !.op = "setDevice", !.arg = arg],
                            FALSE, OverrideValue(serial))
           /\ returned' = {OverrideReturn(serial)}
    /\ UNCHANGED <<Config, tool, resolvingSerial, devices, phase>>

\* doctor, from `const serialState = await getAdbSerialState({strict: false})`
\* on; getAdbVersion() and adbListDevices() before it each sit in their own
\* try/catch and touch no shared state
Doctor(p) ==
    /\ Free(p)
    /\ GetStateBegin(p, [Idle EXCEPT !.op = "doctor"], FALSE, serialOverride)
    /\ returned' = Nothing
    /\ UNCHANGED <<Config, tool, serialOverride, resolvedSerial, resolvingSerial,
                   resolvedFrom, devices, phase>>

----------------------------------------------------------------------------
(* Environment and specification *)

\* a device goes offline or comes online
DevicesChange(d, st) ==
    /\ phase # "exited"
    /\ devices[d] # st
    /\ devices' = [devices EXCEPT ![d] = st]
    /\ returned' = Nothing
    /\ UNCHANGED <<Config, tool, serialOverride, resolvedSerial, resolvingSerial,
                   resolvedFrom, phase, call>>

Next ==
    \/ WarmUpExit
    \/ WarmUpAdb
    \/ \E ok \in BOOLEAN : ResolvingDone(ok)
    \/ \E p \in Procs, strict \in BOOLEAN : ResolveAdbSerial(p, strict)
    \/ \E p \in Procs, arg \in SerialArgs : Command(p, arg)
    \/ \E p \in Procs, ok \in BOOLEAN : AssertDone(p, ok)
    \/ \E p \in Procs : GetAdbSerialState(p, TRUE)
    \/ \E p \in Procs, ok \in BOOLEAN : StateDone(p, ok)
    \/ \E serial \in OverrideArgs : SetAdbSerialOverrideCall(serial)
    \/ \E p \in Procs, arg \in SetDeviceArgs : SetDevice(p, arg)
    \/ \E p \in Procs : Doctor(p)
    \/ \E d \in DeviceSerials, st \in DeviceStates : DevicesChange(d, st)

Spec == Init /\ [][Next]_vars

----------------------------------------------------------------------------
(* computeAdbSerialState on its own, over every input *)

NumListed == 3     \* devices `adb devices -l` can list

ListedSerials == {AllSerials[i] : i \in 1..NumListed}

\* what getRequestedSerial() can return: an override (a serial, the empty
\* string or null), an environment default, or nothing
RequestedInputs ==
    {[serial |-> v, source |-> "override"] :
         v \in {Null, Str(<<>>)} \cup {Str(d) : d \in ListedSerials}}
    \cup {[serial |-> Str(d), source |-> "env"] : d \in ListedSerials}
    \cup {NoReq}

\* the states `adb devices -l` reports for a listed device
ListedStates == DeviceStates \cup {"unauthorized"}

InitCompute ==
    /\ ADB_SERIAL = Undef
    /\ serialOverride = Undef
    /\ resolvedSerial = Undef
    /\ resolvingSerial = NoPromise
    /\ devices \in [ListedSerials -> ListedStates]
    /\ phase = "compute"
    /\ call = [p \in Procs |-> Idle]
    /\ returned = Nothing
    /\ resolvedFrom = NoReq
    /\ tool = NoTool

\* one run of computeAdbSerialState({strict}) with req requested and list
\* enumerated
Compute(req, strict, list) ==
    /\ devices' = list
    /\ returned' =
           {Ret([Idle EXCEPT !.op = "computeAdbSerialState", !.strict = strict,
                             !.req = req],
                "state", strict, computeAdbSerialState(req, strict, list),
                computeAdbSerialState(req, strict, list), Null, FALSE)}
    /\ UNCHANGED <<Config, tool, serialOverride, resolvedSerial, resolvingSerial,
                   resolvedFrom, phase, call>>

\* one run of adbExec's per-call branch: assertSerialAvailable(serial) with
\* list enumerated, then the command with -s serial unless the check threw
AssertAvailable(serial, list) ==
    /\ devices' = list
    /\ LET c == [Idle EXCEPT !.op = "command",
                             !.req = [serial |-> Str(serial), source |-> "call"]]
           error == assertSerialAvailable(serial, list)
       IN  returned' =
               IF error = NoMsg
               THEN {Ret(c, "assert", FALSE, NoComputed, BaseState(NoReq),
                         Str(serial), TRUE)}
               ELSE {Ret(c, "assert", FALSE, NoComputed, Throw(NoReq, error),
                         Null, FALSE)}
    /\ UNCHANGED <<Config, tool, serialOverride, resolvedSerial, resolvingSerial,
                   resolvedFrom, phase, call>>

NextCompute ==
    \/ \E req \in RequestedInputs, strict \in BOOLEAN,
          list \in [ListedSerials -> ListedStates] : Compute(req, strict, list)
    \/ \E serial \in ListedSerials, list \in [ListedSerials -> ListedStates] :
           AssertAvailable(serial, list)

SpecCompute == InitCompute /\ [][NextCompute]_vars

----------------------------------------------------------------------------
(* tools/android.ts: fetchUiXml, fetchUiElements, fetchUiElementsWithRetry *)

DefaultAttempts == 3    \* fetchUiElementsWithRetry: attempts = 3
XmlAttempts == 2        \* fetchUiXml: attempts = 2

Button == El(<<"B", "u", "t", "t", "o", "n">>, TRUE, FALSE, FALSE)
TextView == El(<<"T", "e", "x", "t", "V", "i", "e", "w">>, FALSE, FALSE, FALSE)

\* what parseUIElements makes of the dump that was read back
Screens == {<<>>, <<TextView>>, <<Button>>}

\* the arguments of fetchUiElementsWithRetry
FetchAttempts == {0, 1, DefaultAttempts}
FetchSerialArgs == {Undef, Str(D2)}
OnlyInteractiveArgs == {"undefined", "true"}

NoResult == [threw |-> FALSE, error |-> NoMsg, elements |-> <<>>]

\* The locals of one fetchUiElementsWithRetry call and of the fetchUiXml call
\* inside it. cmd, target: the adb command being run and the serial passed
\* with -s. History: dumpTarget (the target of the latest dump), targets (all
\* targets so far), fetched (the parse results so far), failed (a dump or
\* read-back command failed), retried (a dump was issued after such a failure).
FetchIdle ==
    [name |-> "fetchUiElementsWithRetry", pc |-> "idle",
     onlyInteractive |-> "undefined", attempts |-> 0, serial |-> Undef,
     attempt |-> 0, xmlAttempt |-> 0, lastElements |-> <<>>, lastError |-> NoMsg,
     cmd |-> "none", target |-> Null, dumpTarget |-> Null, targets |-> {},
     fetched |-> <<>>, failed |-> FALSE, retried |-> FALSE, result |-> NoResult]

\* adbExecRaw(serial ? ['-s', serial, ...args] : args) is started
Issue(t, target) ==
    [t EXCEPT !.pc = "awaitCommand", !.target = target,
              !.targets = @ \cup {target},
              !.dumpTarget = IF t.cmd = "dump" THEN target ELSE @]

\* adbShell / adbExecOut(..., {serial: resolvedSerial}) of fetchUiXml, up to
\* the first suspension point of adbExec
FetchExec(t, cmd) ==
    LET u == [t EXCEPT !.cmd = cmd]
    IN  IF u.serial.k = "string" /\ trim(u.serial.v) # <<>>
        THEN /\ tool' = [u EXCEPT !.pc = "awaitAssert"]
             /\ UNCHANGED resolvingSerial
        ELSE IF MemoHit(TRUE)
        THEN /\ tool' = Issue(u, IF Truthy(resolvedSerial) THEN resolvedSerial ELSE Null)
             /\ UNCHANGED resolvingSerial
        ELSE /\ tool' = [u EXCEPT !.pc = "awaitResolving"]
             /\ resolvingSerial' =
                    IF resolvingSerial.active THEN resolvingSerial
                    ELSE [active |-> TRUE, strict |-> TRUE, req |-> getRequestedSerial]

\* fetchUiXml: catch (error) { lastError = error; if (attempt < attempts - 1)
\* await delay } ... throw lastError; nothing above fetchUiXml catches
Caught(t, error, ofCommand) ==
    LET u == [t EXCEPT !.lastError = error, !.failed = @ \/ ofCommand]
    IN  IF t.xmlAttempt < XmlAttempts - 1
        THEN [u EXCEPT !.pc = "xmlDelay"]
        ELSE [u EXCEPT !.pc = "done",
                       !.result = [threw |-> TRUE, error |-> error, elements |-> <<>>]]

Sampled_NoEarlyReturn(t, elements) ==
    LET u == [t EXCEPT !.lastElements = elements, !.fetched = Append(@, elements)]
        out == [threw |-> FALSE, error |-> NoMsg, elements |-> elements]
    IN  IF t.attempt < t.attempts - 1
        THEN [u EXCEPT !.pc = "delay"]
        ELSE [u EXCEPT !.pc = "done", !.result = out]

\* a loop body that waits the delay after every unstable fetch, the last one
\* included
Sampled_DelayAfterLast(t, elements) ==
    LET u == [t EXCEPT !.lastElements = elements, !.fetched = Append(@, elements)]
        out == [threw |-> FALSE, error |-> NoMsg, elements |-> elements]
    IN  IF ~shouldRetry(elements, t.onlyInteractive)
        THEN [u EXCEPT !.pc = "done", !.result = out]
        ELSE [u EXCEPT !.pc = "delay"]

\* fetchUiElementsWithRetry: the loop body after `await fetchUiElements(serial)`
Sampled(t, elements) ==
    LET u == [t EXCEPT !.lastElements = elements, !.fetched = Append(@, elements)]
        out == [threw |-> FALSE, error |-> NoMsg, elements |-> elements]
    IN  IF ~shouldRetry(elements, t.onlyInteractive)
        THEN [u EXCEPT !.pc = "done", !.result = out]
        ELSE IF t.attempt < t.attempts - 1
        THEN [u EXCEPT !.pc = "delay"]
        ELSE [u EXCEPT !.pc = "done", !.result = out]

\* fetchUiElementsWithRetry({onlyInteractive, attempts, delayMs, serial})
FetchUiElementsWithRetry(serial, onlyInteractive, attempts) ==
    /\ tool.pc = "idle"
    /\ LET t == [FetchIdle EXCEPT !.serial = normalizeSerial(serial),
                                  !.onlyInteractive = onlyInteractive,
                                  !.attempts = attempts]
       IN  IF attempts <= 0
           THEN /\ tool' = [t EXCEPT !.pc = "done"]
                /\ UNCHANGED resolvingSerial
           ELSE FetchExec(t, "dump")
    /\ returned' = Nothing
    /\ UNCHANGED <<Config, serialOverride, resolvedSerial, resolvedFrom,
                   devices, phase, call>>

\* adbListDevices() of assertSerialAvailable ends
FetchAssertDone(ok) ==
    /\ tool.pc = "awaitAssert"
    /\ LET error == IF ok
                    THEN assertSerialAvailable(trim(tool.serial.v), adbListDevices)
                    ELSE ExecError
       IN  tool' = IF error = NoMsg
                   THEN Issue(tool, Str(trim(tool.serial.v)))
                   ELSE Caught(tool, error, FALSE)
    /\ returned' = Nothing
    /\ UNCHANGED <<Config, serialOverride, resolvedSerial, resolvingSerial,
                   resolvedFrom, devices, phase, call>>

\* the resolution the fetch awaits settles (as ResolvingDone, with the fetch's
\* adbExec as the waiter)
FetchResolvingDone(ok) ==
    /\ tool.pc = "awaitResolving"
    /\ resolvingSerial.active
    /\ LET r == IF ok
                THEN computeAdbSerialState(resolvingSerial.req,
                                           resolvingSerial.strict, adbListDevices)
                ELSE Throw(resolvingSerial.req, ExecError)
       IN  /\ resolvedSerial' = Memoized(r)
           /\ resolvedFrom' = IF r.threw THEN resolvedFrom ELSE resolvingSerial.req
           /\ tool' = IF r.threw
                      THEN Caught(tool, r.error, FALSE)
                      ELSE Issue(tool, IF Truthy(r.serial) THEN r.serial ELSE Null)
    /\ resolvingSerial' = NoPromise
    /\ returned' = Nothing
    /\ UNCHANGED <<Config, serialOverride, devices, phase, call>>

\* the dump or read-back command ends; elements is parseUIElements of what
\* was read back
FetchCommandDone(ok, elements) ==
    /\ tool.pc = "awaitCommand"
    /\ IF ~ok
       THEN /\ tool' = Caught(tool, ExecError, TRUE)
            /\ UNCHANGED resolvingSerial
       ELSE IF tool.cmd = "dump"
       THEN FetchExec(tool, "cat")
       ELSE /\ tool' = Sampled(tool, elements)
            /\ UNCHANGED resolvingSerial
    /\ returned' = Nothing
    /\ UNCHANGED <<Config, serialOverride, resolvedSerial, resolvedFrom,
                   devices, phase, call>>

\* fetchUiXml: the delay after a caught error is over, next attempt
FetchXmlDelayDone ==
    /\ tool.pc = "xmlDelay"
    /\ FetchExec([tool EXCEPT !.xmlAttempt = @ + 1, !.retried = @ \/ tool.failed],
                 "dump")
    /\ returned' = Nothing
    /\ UNCHANGED <<Config, serialOverride, resolvedSerial, resolvedFrom,
                   devices, phase, call>>

\* fetchUiElementsWithRetry: the delay between attempts is over, next
\* fetchUiElements call
FetchDelayDone ==
    /\ tool.pc = "delay"
    /\ FetchExec([tool EXCEPT !.attempt = @ + 1, !.xmlAttempt = 0,
                              !.lastError = NoMsg], "dump")
    /\ returned' = Nothing
    /\ UNCHANGED <<Config, serialOverride, resolvedSerial, resolvedFrom,
                   devices, phase, call>>

\* setDevice run by another invocation while the tool is suspended: its
\* setAdbSerialOverride(serial ?? 'auto'); the getAdbSerialState that follows
\* writes no shared state
SetDeviceOverrides ==
    {IF arg.k = "undefined" THEN Str(AUTO) ELSE arg : arg \in SetDeviceArgs}

InitFetch ==
    /\ \E serialEnv \in EnvValues : ADB_SERIAL = ConfigAdbSerial(serialEnv)
    /\ serialOverride = Undef
    /\ resolvedSerial = Undef
    /\ resolvingSerial = NoPromise
    /\ devices \in [DeviceSerials -> DeviceStates]
    /\ phase = "serving"
    /\ call = [p \in Procs |-> Idle]
    /\ returned = Nothing
    /\ resolvedFrom = NoReq
    /\ tool = FetchIdle

NextFetch ==
    \/ \E serial \in FetchSerialArgs, onlyInteractive \in OnlyInteractiveArgs,
          attempts \in FetchAttempts :
           FetchUiElementsWithRetry(serial, onlyInteractive, attempts)
    \/ \E ok \in BOOLEAN : FetchAssertDone(ok)
    \/ \E ok \in BOOLEAN : FetchResolvingDone(ok)
    \/ \E ok \in BOOLEAN, elements \in Screens : FetchCommandDone(ok, elements)
    \/ FetchXmlDelayDone
    \/ FetchDelayDone
    \/ \E serial \in SetDeviceOverrides : SetAdbSerialOverrideCall(serial)
    \/ \E d \in DeviceSerials, st \in DeviceStates : DevicesChange(d, st)

SpecFetch == InitFetch /\ [][NextFetch]_vars

----------------------------------------------------------------------------
(* tools/android.ts: the stability judgement of fetchUiElementsWithRetry, on
   its own *)

MaxElements == 2     \* elements in a judged list

\* class attributes: progress bars in two spellings, a near miss, a button
Classes ==
    {<<"P", "r", "o", "g", "r", "e", "s", "s", "B", "a", "r">>,
     <<"x", ".", "P", "R", "O", "G", "R", "E", "S", "S", "B", "A", "R">>,
     <<"P", "r", "o", "g", "r", "e", "s", "s">>,
     <<"B", "u", "t", "t", "o", "n">>}

JudgedElements ==
    {El(c, k, h, r) : c \in Classes, k \in BOOLEAN, h \in BOOLEAN, r \in BOOLEAN}

JudgedLists ==
    UNION {[1..n -> JudgedElements] : n \in 0..MaxElements}

InitJudge ==
    /\ ADB_SERIAL = Undef
    /\ serialOverride = Undef
    /\ resolvedSerial = Undef
    /\ resolvingSerial = NoPromise
    /\ devices = [d \in DeviceSerials |-> "device"]
    /\ phase = "serving"
    /\ call = [p \in Procs |-> Idle]
    /\ returned = Nothing
    /\ resolvedFrom = NoReq
    /\ \E elements \in JudgedLists, onlyInteractive \in {"undefined", "true", "false"} :
           tool = [name |-> "shouldRetry", pc |-> "fetched", elements |-> elements,
                   onlyInteractive |-> onlyInteractive, retry |-> FALSE]

\* fetchUiElementsWithRetry judges the list it fetched
Judge ==
    /\ tool.pc = "fetched"
    /\ tool' = [tool EXCEPT !.pc = "judged",
                            !.retry = shouldRetry(tool.elements, tool.onlyInteractive)]
    /\ UNCHANGED <<Config, serialOverride, resolvedSerial, resolvingSerial,
                   resolvedFrom, devices, phase, call, returned>>

NextJudge == Judge

SpecJudge == InitJudge /\ [][NextJudge]_vars

----------------------------------------------------------------------------
(* tools/android.ts: waitForElement *)

DefaultTimeoutMs == 10000    \* timeout ?? 10000
DefaultIntervalMs == 500     \* interval ?? 500
MinIntervalMs == 50          \* Math.max(50, ...)

\* a number | undefined argument
Num(n) == [k |-> "number", n |-> n]
NoNum == [k |-> "undefined", n |-> 0]

Max(a, b) == IF a >= b THEN a ELSE b

\* const timeoutMs = Math.max(0, timeout ?? 10000);
ClampTimeout(timeout) ==
    Max(0, IF timeout.k = "undefined" THEN DefaultTimeoutMs ELSE timeout.n)

ClampInterval_NoMinimum(interval) ==
    IF interval.k = "undefined" THEN DefaultIntervalMs ELSE interval.n

\* const intervalMs = Math.max(50, interval ?? 500);
ClampInterval(interval) ==
    Max(MinIntervalMs,
        IF interval.k = "undefined" THEN DefaultIntervalMs ELSE interval.n)

----------------------------------------------------------------------------
(* ui-parser.ts: bounds and center; tools/android.ts: tapElement *)

Bounds(x1, y1, x2, y2) == [x1 |-> x1, y1 |-> y1, x2 |-> x2, y2 |-> y2]

\* function defaultBounds(): Bounds
defaultBounds == Bounds(0, 0, 0, 0)

\* n / 2 with a half going toward negative infinity
RoundHalf_Down(n) == n \div 2

\* Math.round(n / 2) for an integer n: a half goes toward positive infinity
RoundHalf(n) == (n + 1) \div 2

\* function centerFromBounds(bounds: Bounds): Center
centerFromBounds(bounds) ==
    [x |-> RoundHalf(bounds.x1 + bounds.x2), y |-> RoundHalf(bounds.y1 + bounds.y2)]

hasValidBounds_AllowsEmpty(element) ==
    element.bounds.x2 >= element.bounds.x1 /\ element.bounds.y2 >= element.bounds.y1

\* function hasValidBounds(element: UIElement)
hasValidBounds(element) ==
    element.bounds.x2 > element.bounds.x1 /\ element.bounds.y2 > element.bounds.y1

MaxMatches == 2      \* elements findElements hands to tapElement

\* bounds of matched elements: the fallback zero rectangle, a proper one, zero
\* width, zero height, inverted, and a proper one left of the origin
TapBounds ==
    {defaultBounds, Bounds(0, 0, 2, 5), Bounds(2, 0, 2, 5), Bounds(0, 5, 2, 5),
     Bounds(5, 5, 0, 0), Bounds(-3, -4, 0, 1)}

\* a parsed element, as far as tapElement reads it
TapEl(bounds, clickable) ==
    [bounds |-> bounds, center |-> centerFromBounds(bounds), clickable |-> clickable]

TapElements == {TapEl(b, c) : b \in TapBounds, c \in BOOLEAN}

TapMatches == UNION {[1..n -> TapElements] : n \in 0..MaxMatches}

NoTapElement == TapEl(defaultBounds, FALSE)

\* a filter that keeps every match
FilterClickable_KeepsAll(elements) == elements

\* matches.filter((element) => element.clickable)
RECURSIVE FilterClickable(_)
FilterClickable(elements) ==
    IF elements = <<>> THEN <<>>
    ELSE IF Head(elements).clickable
    THEN <<Head(elements)>> \o FilterClickable(Tail(elements))
    ELSE FilterClickable(Tail(elements))

\* The locals of one tapElement call. selected: `element` is defined.
\* History: taps (the coordinates of the `input tap` commands issued), fetched
\* (fetchUiElements returned), matches (what findElements returned).
TapCalled(preferClickable, index) ==
    [name |-> "tapElement", pc |-> "awaitFetch", preferClickable |-> preferClickable,
     index |-> index, selected |-> FALSE, element |-> NoTapElement,
     taps |-> {}, threw |-> FALSE, tapped |-> FALSE, message |-> "none",
     fetched |-> FALSE, matches |-> <<>>]

\* await fetchUiElements(serial) ends; matches is findElements(elements, ...).
\* The handler runs on to its return or to the await of the tap command.
TapFetchDone(ok, matches) ==
    /\ tool.pc = "awaitFetch"
    /\ LET shouldPreferClickable == tool.preferClickable # "false"
           orderedMatches ==
               IF shouldPreferClickable
                  /\ \E i \in 1..Len(matches) : matches[i].clickable
               THEN FilterClickable(matches)
               ELSE matches
           elementIndex == IF tool.index.k = "undefined" THEN 0 ELSE tool.index.n
           defined == elementIndex \in 0..(Len(orderedMatches) - 1)
           element == IF defined THEN orderedMatches[elementIndex + 1]
                      ELSE NoTapElement
           t == [tool EXCEPT !.fetched = TRUE, !.matches = matches]
       IN  tool' =
             IF ~ok
             THEN [tool EXCEPT !.pc = "done", !.threw = TRUE]
             ELSE IF Len(matches) = 0
             THEN [t EXCEPT !.pc = "done", !.message = "No matching elements found."]
             ELSE IF ~defined
             THEN [t EXCEPT !.pc = "done", !.message = "Element index out of range."]
             ELSE IF ~hasValidBounds(element)
             THEN [t EXCEPT !.pc = "done", !.selected = TRUE, !.element = element,
                            !.message = "Element bounds invalid; tap aborted."]
             ELSE [t EXCEPT !.pc = "awaitTap", !.selected = TRUE,
                            !.element = element,
                            !.taps = @ \cup {<<element.center.x, element.center.y>>}]
    /\ UNCHANGED <<Config, serialOverride, resolvedSerial, resolvingSerial,
                   resolvedFrom, devices, phase, call, returned>>

\* await adbShell(`input tap ${element.center.x} ${element.center.y}`) ends
TapCommandDone(ok) ==
    /\ tool.pc = "awaitTap"
    /\ tool' = IF ok
               THEN [tool EXCEPT !.pc = "done", !.tapped = TRUE,
                                 !.message = "Element tapped."]
               ELSE [tool EXCEPT !.pc = "done", !.threw = TRUE]
    /\ UNCHANGED <<Config, serialOverride, resolvedSerial, resolvingSerial,
                   resolvedFrom, devices, phase, call, returned>>

\* the `preferClickable` and `index` arguments
PreferClickableArgs == {"undefined", "true", "false"}
IndexArgs == {NoNum, Num(0), Num(1), Num(-1)}

InitTap ==
    /\ ADB_SERIAL = Undef
    /\ serialOverride = Undef
    /\ resolvedSerial = Undef
    /\ resolvingSerial = NoPromise
    /\ devices = [d \in DeviceSerials |-> "device"]
    /\ phase = "serving"
    /\ call = [p \in Procs |-> Idle]
    /\ returned = Nothing
    /\ resolvedFrom = NoReq
    /\ \E preferClickable \in PreferClickableArgs, index \in IndexArgs :
           tool = TapCalled(preferClickable, index)

NextTap ==
    \/ \E ok \in BOOLEAN, matches \in TapMatches : TapFetchDone(ok, matches)
    \/ \E ok \in BOOLEAN : TapCommandDone(ok)

SpecTap == InitTap /\ [][NextTap]_vars

----------------------------------------------------------------------------
(* ui-parser.ts: the lexical helpers of parseUIElements *)

DigitChars == <<"0", "1", "2", "3", "4", "5", "6", "7", "8", "9">>

IsDigit(c) == \E i \in 1..10 : DigitChars[i] = c

DigitValue(c) == (CHOOSE i \in 1..10 : DigitChars[i] = c) - 1

IsLetter(c) ==
    \E i \in 1..26 : UpperCase[i] = c \/ LowerCase[i] = c

\* \w
IsWordChar(c) == IsLetter(c) \/ IsDigit(c) \/ c = "_"

\* [a-zA-Z0-9_:-]
IsAttrKeyChar(c) == IsWordChar(c) \/ c = ":" \/ c = "-"

\* the white space Number.parseInt skips
IsStrWhiteSpace(c) == c = " " \/ c = "\t" \/ c = "\n" \/ c = "\r"

\* the first position >= i of s that holds c, or 0
RECURSIVE IndexOf(_, _, _)
IndexOf(s, c, i) ==
    IF i > Len(s) THEN 0
    ELSE IF s[i] = c THEN i
    ELSE IndexOf(s, c, i + 1)

\* whether sub stands in s at position i
StartsAt(s, sub, i) ==
    i + Len(sub) - 1 <= Len(s) /\ SubSeq(s, i, i + Len(sub) - 1) = sub

\* the last position of the run of characters satisfying \d that starts at i
\* (i - 1 when s[i] is no digit)
RECURSIVE DigitsEnd(_, _)
DigitsEnd(s, i) ==
    IF i <= Len(s) /\ IsDigit(s[i]) THEN DigitsEnd(s, i + 1) ELSE i - 1

\* the number written by the decimal digits ds
RECURSIVE DecimalValue(_)
DecimalValue(ds) ==
    IF ds = <<>> THEN 0
    ELSE 10 * DecimalValue(SubSeq(ds, 1, Len(ds) - 1)) + DigitValue(ds[Len(ds)])

NaN == [nan |-> TRUE, n |-> 0]
Finite(n) == [nan |-> FALSE, n |-> n]

RECURSIVE SkipWhiteSpace(_, _)
SkipWhiteSpace(s, i) ==
    IF i <= Len(s) /\ IsStrWhiteSpace(s[i]) THEN SkipWhiteSpace(s, i + 1) ELSE i

\* Number.parseInt(s, 10): leading white space, an optional sign, then the
\* longest run of digits; NaN when there is no digit
parseInt(s) ==
    LET i == SkipWhiteSpace(s, 1)
        signed == i <= Len(s) /\ (s[i] = "-" \/ s[i] = "+")
        j == IF signed THEN i + 1 ELSE i
        e == DigitsEnd(s, j)
    IN  IF e < j THEN NaN
        ELSE IF signed /\ s[i] = "-"
        THEN Finite(0 - DecimalValue(SubSeq(s, j, e)))
        ELSE Finite(DecimalValue(SubSeq(s, j, e)))

----------------------------------------------------------------------------
(* ui-parser.ts: decodeXml, parseAttributes, parseBounds, parseUIElements *)

\* the characters with char codes 32..126, in order (the grave accent,
\* code 96, is written by its code)
Ascii ==
    <<" ", "!", "\"", "#", "$", "%", "&", "'", "(", ")", "*", "+",
      ",", "-", ".", "/", "0", "1", "2", "3", "4", "5", "6", "7",
      "8", "9", ":", ";", "<", "=", ">", "?", "@", "A", "B", "C",
      "D", "E", "F", "G", "H", "I", "J", "K", "L", "M", "N", "O",
      "P", "Q", "R", "S", "T", "U", "V", "W", "X", "Y", "Z", "[",
      "\\", "]", "^", "_", "\\u96", "a", "b", "c", "d", "e", "f", "g",
      "h", "i", "j", "k", "l", "m", "n", "o", "p", "q", "r", "s",
      "t", "u", "v", "w", "x", "y", "z", "{", "|", "}", "~">>

\* String.fromCharCode(code): the code is taken modulo 2^16
fromCharCode(code) ==
    LET unit == code % 65536
    IN  IF unit \in 32..126 THEN Ascii[unit - 31]
        ELSE IF unit = 9 THEN "\t"
        ELSE IF unit = 10 THEN "\n"
        ELSE IF unit = 13 THEN "\r"
        ELSE "\\u" \o ToString(unit)

HexChars ==
    <<"0", "1", "2", "3", "4", "5", "6", "7", "8", "9", "a", "b", "c", "d", "e", "f">>

\* [0-9a-fA-F]
IsHexDigit(c) == \E i \in 1..16 : HexChars[i] = toLowerCaseChar(c)

HexDigitValue(c) == (CHOOSE i \in 1..16 : HexChars[i] = toLowerCaseChar(c)) - 1

RECURSIVE HexEnd(_, _)
HexEnd(s, i) ==
    IF i <= Len(s) /\ IsHexDigit(s[i]) THEN HexEnd(s, i + 1) ELSE i - 1

RECURSIVE HexValue(_)
HexValue(ds) ==
    IF ds = <<>> THEN 0
    ELSE 16 * HexValue(SubSeq(ds, 1, Len(ds) - 1)) + HexDigitValue(ds[Len(ds)])

\* const ENTITY_MAP
ENTITY_MAP ==
    <<[name |-> <<"q", "u", "o", "t">>, char |-> "\""],
      [name |-> <<"a", "m", "p">>, char |-> "&"],
      [name |-> <<"l", "t">>, char |-> "<"],
      [name |-> <<"g", "t">>, char |-> ">"],
      [name |-> <<"a", "p", "o", "s">>, char |-> "'"]>>

\* A match of /&(#x[0-9a-fA-F]+|#\d+|quot|amp|lt|gt|apos);/ at position i of
\* s: end is the position of its `;` (0: no match), text its replacement
EntityAt(s, i) ==
    LET none == [end |-> 0, text |-> <<>>]
    IN  IF ~(i <= Len(s) /\ s[i] = "&") THEN none
        ELSE IF StartsAt(s, <<"#", "x">>, i + 1)
        THEN LET e == HexEnd(s, i + 3)
             IN  IF e >= i + 3 /\ e < Len(s) /\ s[e + 1] = ";"
                 THEN [end |-> e + 1,
                       text |-> <<fromCharCode(HexValue(SubSeq(s, i + 3, e)))>>]
                 ELSE none
        ELSE IF StartsAt(s, <<"#">>, i + 1)
        THEN LET e == DigitsEnd(s, i + 2)
             IN  IF e >= i + 2 /\ e < Len(s) /\ s[e + 1] = ";"
                 THEN [end |-> e + 1,
                       text |-> <<fromCharCode(DecimalValue(SubSeq(s, i + 2, e)))>>]
                 ELSE none
        ELSE IF \E k \in 1..Len(ENTITY_MAP) :
                    StartsAt(s, ENTITY_MAP[k].name \o <<";">>, i + 1)
        THEN LET k == CHOOSE k \in 1..Len(ENTITY_MAP) :
                          StartsAt(s, ENTITY_MAP[k].name \o <<";">>, i + 1)
             IN  [end |-> i + Len(ENTITY_MAP[k].name) + 1,
                  text |-> <<ENTITY_MAP[k].char>>]
        ELSE none

RECURSIVE DecodeFrom(_, _)
DecodeFrom(s, i) ==
    IF i > Len(s) THEN <<>>
    ELSE IF EntityAt(s, i).end # 0
    THEN EntityAt(s, i).text \o DecodeFrom(s, EntityAt(s, i).end + 1)
    ELSE <<s[i]>> \o DecodeFrom(s, i + 1)

\* a decoder that decodes its own output once more
decodeXml_Twice(value) == DecodeFrom(DecodeFrom(value, 1), 1)

\* function decodeXml(value: string)
decodeXml(value) == DecodeFrom(value, 1)

RECURSIVE KeyEnd(_, _)
KeyEnd(s, i) ==
    IF i <= Len(s) /\ IsAttrKeyChar(s[i]) THEN KeyEnd(s, i + 1) ELSE i - 1

\* tag.matchAll(/([a-zA-Z0-9_:-]+)="([^"]*)"/g) from position i on: the
\* <<key, decoded value>> pairs in order
RECURSIVE AttrMatches(_, _)
AttrMatches(tag, i) ==
    IF i > Len(tag) THEN <<>>
    ELSE LET e == KeyEnd(tag, i)
             close == IndexOf(tag, "\"", e + 3)
         IN  IF e >= i /\ StartsAt(tag, <<"=", "\"">>, e + 1) /\ close # 0
             THEN <<[key |-> SubSeq(tag, i, e),
                     value |-> decodeXml(SubSeq(tag, e + 3, close - 1))]>>
                  \o AttrMatches(tag, close + 1)
             ELSE AttrMatches(tag, i + 1)

\* function parseAttributes(tag: string)
parseAttributes(tag) == AttrMatches(tag, 1)

\* attrs[key]: the value assigned last, or undefined
Attr(attrs, key) ==
    LET hits == {i \in 1..Len(attrs) : attrs[i].key = key}
    IN  IF hits = {} THEN Undef
        ELSE Str(attrs[CHOOSE i \in hits : \A j \in hits : j <= i].value)

\* attrs[key] ?? ''
AttrOrEmpty(attrs, key) ==
    IF Attr(attrs, key).k = "undefined" THEN <<>> ELSE Attr(attrs, key).v

\* A match of -?\d+ at position i of s: end is its last position (0: none)
SignedIntAt(s, i) ==
    LET j == IF i <= Len(s) /\ s[i] = "-" THEN i + 1 ELSE i
        e == DigitsEnd(s, j)
    IN  IF e >= j THEN [end |-> e, n |-> parseInt(SubSeq(s, i, e)).n]
        ELSE [end |-> 0, n |-> 0]

\* A match of /\[(-?\d+),(-?\d+)\]\[(-?\d+),(-?\d+)\]/ starting exactly at
\* position i of s
BoundsAt(s, i) ==
    LET none == [ok |-> FALSE, bounds |-> defaultBounds]
        a == SignedIntAt(s, i + 1)
        b == SignedIntAt(s, a.end + 2)
        c == SignedIntAt(s, b.end + 3)
        d == SignedIntAt(s, c.end + 2)
    IN  IF ~StartsAt(s, <<"[">>, i) \/ a.end = 0 THEN none
        ELSE IF ~StartsAt(s, <<",">>, a.end + 1) \/ b.end = 0 THEN none
        ELSE IF ~StartsAt(s, <<"]", "[">>, b.end + 1) \/ c.end = 0 THEN none
        ELSE IF ~StartsAt(s, <<",">>, c.end + 1) \/ d.end = 0 THEN none
        ELSE IF ~StartsAt(s, <<"]">>, d.end + 1) THEN none
        ELSE [ok |-> TRUE, bounds |-> Bounds(a.n, b.n, c.n, d.n)]

\* function parseBounds(value: string | undefined): Bounds | null
parseBounds(value) ==
    IF ~Truthy(value) THEN [ok |-> FALSE, bounds |-> defaultBounds]
    ELSE LET starts == {i \in 1..Len(value.v) : BoundsAt(value.v, i).ok}
         IN  IF starts = {} THEN [ok |-> FALSE, bounds |-> defaultBounds]
             ELSE BoundsAt(value.v, CHOOSE i \in starts : \A j \in starts : i <= j)

TRUE_TEXT == <<"t", "r", "u", "e">>

\* a conversion by truthiness: every non-empty value counts as true
toBoolean_Truthy(value) == Truthy(value)

\* function toBoolean(value: string | undefined)
toBoolean(value) == value = Str(TRUE_TEXT)

K_index == <<"i", "n", "d", "e", "x">>
K_text == <<"t", "e", "x", "t">>
K_class == <<"c", "l", "a", "s", "s">>
K_resource_id == <<"r", "e", "s", "o", "u", "r", "c", "e", "-", "i", "d">>
K_content_desc == <<"c", "o", "n", "t", "e", "n", "t", "-", "d", "e", "s", "c">>
K_bounds == <<"b", "o", "u", "n", "d", "s">>
K_checkable == <<"c", "h", "e", "c", "k", "a", "b", "l", "e">>
K_checked == <<"c", "h", "e", "c", "k", "e", "d">>
K_clickable == <<"c", "l", "i", "c", "k", "a", "b", "l", "e">>
K_enabled == <<"e", "n", "a", "b", "l", "e", "d">>
K_focused == <<"f", "o", "c", "u", "s", "e", "d">>
K_scrollable == <<"s", "c", "r", "o", "l", "l", "a", "b", "l", "e">>
K_selected == <<"s", "e", "l", "e", "c", "t", "e", "d">>

\* the index after line 203, fallbackIndex += 1, counting only the elements
\* that took the fallback
fallbackIndexAfter_OnlyWhenUsed(fallbackIndex, parsedIndex) ==
    IF parsedIndex.nan THEN fallbackIndex + 1 ELSE fallbackIndex

\* fallbackIndex += 1, for every element
fallbackIndexAfter(fallbackIndex, parsedIndex) == fallbackIndex + 1

\* The element parseUIElements pushes for one tag
ElementOf(tag, fallbackIndex) ==
    LET attrs == parseAttributes(tag)
        parsed == parseBounds(Attr(attrs, K_bounds))
        bounds == IF parsed.ok THEN parsed.bounds ELSE defaultBounds
        parsedIndex == parseInt(AttrOrEmpty(attrs, K_index))
    IN  [index |-> IF ~parsedIndex.nan THEN parsedIndex.n ELSE fallbackIndex,
         text |-> AttrOrEmpty(attrs, K_text),
         class |-> AttrOrEmpty(attrs, K_class),
         resourceId |-> AttrOrEmpty(attrs, K_resource_id),
         contentDesc |-> AttrOrEmpty(attrs, K_content_desc),
         bounds |-> bounds,
         center |-> centerFromBounds(bounds),
         checkable |-> toBoolean(Attr(attrs, K_checkable)),
         checked |-> toBoolean(Attr(attrs, K_checked)),
         clickable |-> toBoolean(Attr(attrs, K_clickable)),
         enabled |-> toBoolean(Attr(attrs, K_enabled)),
         focused |-> toBoolean(Attr(attrs, K_focused)),
         scrollable |-> toBoolean(Attr(attrs, K_scrollable)),
         selected |-> toBoolean(Attr(attrs, K_selected))]

NODE_OPEN == <<"<", "n", "o", "d", "e">>

\* A match of /<node\b[^>]*>/ starting exactly at position i of xml: the
\* position of its `>`, or 0
NodeTagEnd(xml, i) ==
    IF StartsAt(xml, NODE_OPEN, i)
       /\ (i + 5 > Len(xml) \/ ~IsWordChar(xml[i + 5]))
    THEN IndexOf(xml, ">", i + 5)
    ELSE 0

\* the loop over xml.matchAll(nodeRegex), from position i on: a match
\* starts at a `<`, and the search resumes after the match
RECURSIVE ElementsFrom(_, _, _)
ElementsFrom(xml, i, fallbackIndex) ==
    LET start == IndexOf(xml, "<", i)
    IN  IF start = 0 THEN <<>>
        ELSE IF NodeTagEnd(xml, start) # 0
        THEN LET tag == SubSeq(xml, start, NodeTagEnd(xml, start))
                 parsedIndex == parseInt(AttrOrEmpty(parseAttributes(tag), K_index))
             IN  <<ElementOf(tag, fallbackIndex)>>
                 \o ElementsFrom(xml, NodeTagEnd(xml, start) + 1,
                                 fallbackIndexAfter(fallbackIndex, parsedIndex))
        ELSE ElementsFrom(xml, start + 1, fallbackIndex)

\* export function parseUIElements(xml: string): UIElement[]
parseUIElements(xml) == ElementsFrom(xml, 1, 0)

----------------------------------------------------------------------------
(* SpecParse: parseUIElements applied to UI dumps *)

MaxTags == 3
MaxCoord == 3

\* a node without an index attribute: <node text="First" bounds="[0,0][1,1]" />
PieceFirst ==
    <<"<", "n", "o", "d", "e", " ", "t", "e", "x", "t", "=", "\"", "F",
      "i", "r", "s", "t", "\"", " ", "b", "o", "u", "n", "d", "s", "=",
      "\"", "[", "0", ",", "0", "]", "[", "1", ",", "1", "]", "\"", " ",
      "/", ">">>

\* a node whose index attribute is a plain integer: <node index="2" class="a.Button" clickable="true" bounds="[-3,0][0,5]">
PieceIndexed ==
    <<"<", "n", "o", "d", "e", " ", "i", "n", "d", "e", "x", "=", "\"",
      "2", "\"", " ", "c", "l", "a", "s", "s", "=", "\"", "a", ".", "B",
      "u", "t", "t", "o", "n", "\"", " ", "c", "l", "i", "c", "k", "a",
      "b", "l", "e", "=", "\"", "t", "r", "u", "e", "\"", " ", "b", "o",
      "u", "n", "d", "s", "=", "\"", "[", "-", "3", ",", "0", "]", "[",
      "0", ",", "5", "]", "\"", ">">>

\* a node whose index attribute is signed, with unparseable bounds: <node index="-3" bounds="[x,y][z,w]" />
PieceNegative ==
    <<"<", "n", "o", "d", "e", " ", "i", "n", "d", "e", "x", "=", "\"",
      "-", "3", "\"", " ", "b", "o", "u", "n", "d", "s", "=", "\"", "[",
      "x", ",", "y", "]", "[", "z", ",", "w", "]", "\"", " ", "/", ">">>

\* a node whose index attribute is partially numeric: <node index="7x" text="a &amp; b" />
PiecePartial ==
    <<"<", "n", "o", "d", "e", " ", "i", "n", "d", "e", "x", "=", "\"",
      "7", "x", "\"", " ", "t", "e", "x", "t", "=", "\"", "a", " ", "&",
      "a", "m", "p", ";", " ", "b", "\"", " ", "/", ">">>

\* a node whose index attribute has no leading integer: <node index="x1" bounds="[1,2][4,4]">
PieceNotNumeric ==
    <<"<", "n", "o", "d", "e", " ", "i", "n", "d", "e", "x", "=", "\"",
      "x", "1", "\"", " ", "b", "o", "u", "n", "d", "s", "=", "\"", "[",
      "1", ",", "2", "]", "[", "4", ",", "4", "]", "\"", ">">>

\* a closing tag: </node>
PieceClose ==
    <<"<", "/", "n", "o", "d", "e", ">">>

\* a tag whose name only starts with node: <nodes index="4" />
PieceNodes ==
    <<"<", "n", "o", "d", "e", "s", " ", "i", "n", "d", "e", "x", "=",
      "\"", "4", "\"", " ", "/", ">">>

Pieces ==
    <<PieceFirst, PieceIndexed, PieceNegative, PiecePartial, PieceNotNumeric,
      PieceClose, PieceNodes>>

HIERARCHY_OPEN ==
    <<"<", "h", "i", "e", "r", "a", "r", "c", "h", "y", " ", "r", "o", "t",
      "a", "t", "i", "o", "n", "=", "\"", "0", "\"", ">">>

HIERARCHY_CLOSE ==
    <<"<", "/", "h", "i", "e", "r", "a", "r", "c", "h", "y", ">">>

RECURSIVE Join(_)
Join(ids) ==
    IF ids = <<>> THEN <<>> ELSE Pieces[Head(ids)] \o Join(Tail(ids))

\* the dump made of the pieces ids, in order
DumpOf(ids) == HIERARCHY_OPEN \o Join(ids) \o HIERARCHY_CLOSE

\* the decimal numeral of the integer n
RECURSIVE NatChars(_)
NatChars(n) ==
    IF n < 10 THEN <<DigitChars[n + 1]>>
    ELSE NatChars(n \div 10) \o <<DigitChars[(n % 10) + 1]>>

IntChars(n) == IF n < 0 THEN <<"-">> \o NatChars(0 - n) ELSE NatChars(n)

\* the bounds attribute value uiautomator writes for a rectangle
BoundsText(b) ==
    <<"[">> \o IntChars(b.x1) \o <<",">> \o IntChars(b.y1) \o <<"]", "[">>
    \o IntChars(b.x2) \o <<",">> \o IntChars(b.y2) \o <<"]">>

\* a dump of one node with the rectangle b
RectDump(b) ==
    HIERARCHY_OPEN
    \o NODE_OPEN \o <<" ">> \o K_bounds \o <<"=", "\"">> \o BoundsText(b)
    \o <<"\"", " ", "/", ">">>
    \o HIERARCHY_CLOSE

PieceIds ==
    UNION {[1..n -> 1..Len(Pieces)] : n \in 0..MaxTags}

Coords == (0 - MaxCoord)..MaxCoord

NoRect == [none |-> TRUE]

\* parseUIElements(xml) is called
ParseCalled(xml, ids, rect) ==
    [name |-> "parseUIElements", pc |-> "called", xml |-> xml, ids |-> ids,
     rect |-> rect, elements |-> <<>>]

InitParse ==
    /\ ADB_SERIAL = Undef
    /\ serialOverride = Undef
    /\ resolvedSerial = Undef
    /\ resolvingSerial = NoPromise
    /\ devices = [d \in DeviceSerials |-> "device"]
    /\ phase = "serving"
    /\ call = [p \in Procs |-> Idle]
    /\ returned = Nothing
    /\ resolvedFrom = NoReq
    /\ \/ \E ids \in PieceIds : tool = ParseCalled(DumpOf(ids), ids, NoRect)
       \/ \E x1 \in Coords, y1 \in Coords, x2 \in Coords, y2 \in Coords :
              tool = ParseCalled(RectDump(Bounds(x1, y1, x2, y2)), <<>>,
                                 Bounds(x1, y1, x2, y2))

\* parseUIElements runs to its return
Parse ==
    /\ tool.name = "parseUIElements"
    /\ tool.pc = "called"
    /\ tool' = [tool EXCEPT !.pc = "done", !.elements = parseUIElements(tool.xml)]
    /\ UNCHANGED <<Config, serialOverride, resolvedSerial, resolvingSerial,
                   devices, phase, call, returned, resolvedFrom>>

NextParse == Parse

SpecParse == InitParse /\ [][NextParse]_vars

\* the elements parseUIElements returned
Parsed == tool.name = "parseUIElements" /\ tool.pc = "done"

----------------------------------------------------------------------------
(* SpecFields: parseUIElements applied to one node tag whose attribute values
   are drawn from tables *)

\* values of a flag attribute (Undef: the attribute is absent)
FlagTexts ==
    <<Undef,
      Str(<<"t", "r", "u", "e">>),
      Str(<<"T", "r", "u", "e">>),
      Str(<<"T", "R", "U", "E">>),
      Str(<<"f", "a", "l", "s", "e">>),
      Str(<<>>),
      Str(<<" ", "t", "r", "u", "e">>),
      Str(<<"1">>)>>

\* values of the bounds attribute (Undef: the attribute is absent)
BoundsTexts ==
    <<Undef,
      Str(<<>>),
      Str(<<"[", "1", ",", "2", "]", "[", "3", ",", "4", "]">>),
      Str(<<"[", "-", "1", ",", "-", "2", "]", "[", "-", "3", ",", "4", "]">>),
      Str(<<"[", "1", ",", "2", "]", "[", "3", "]">>),
      Str(<<"[", "x", ",", "y", "]", "[", "z", ",", "w", "]">>),
      Str(<<"[", "1", ".", "5", ",", "2", "]", "[", "3", ",", "4", "]">>),
      Str(<<"[", "1", ",", " ", "2", "]", "[", "3", ",", "4", "]">>),
      Str(<<"x", "[", "0", ",", "0", "]", "[", "5", ",", "5", "]", "y">>),
      Str(<<"[", "1", ",", "[", "1", ",", "2", "]", "[", "3", ",", "4", "]">>)>>

\* pieces of a text attribute value
TextSegments ==
    <<<<"a">>,
      <<"&", "q", "u", "o", "t", ";">>,
      <<"&", "a", "m", "p", ";">>,
      <<"&", "l", "t", ";">>,
      <<"&", "g", "t", ";">>,
      <<"&", "a", "p", "o", "s", ";">>,
      <<"&", "#", "6", "5", ";">>,
      <<"&", "#", "x", "4", "1", ";">>,
      <<"&", "u", "n", "k", "n", "o", "w", "n", "E", "n", "t", "i", "t", "y", ";">>,
      <<"l", "t", ";">>>>

MaxSegments == 2

\* code points written as numeric references
EntityCodes == {65, 97, 126, 65536 + 65, 65536 + 97, 2 * 65536 + 126}

FlagKeys ==
    <<K_checkable, K_checked, K_clickable, K_enabled, K_focused, K_scrollable,
      K_selected>>

\* the numeral of n in base 16
RECURSIVE HexNumeral(_)
HexNumeral(n) ==
    IF n < 16 THEN <<HexChars[n + 1]>>
    ELSE HexNumeral(n \div 16) \o <<HexChars[(n % 16) + 1]>>

\* the numeric reference to the code point n, decimal or hexadecimal
NumericReference(n, radix) ==
    IF radix = 16 THEN <<"&", "#", "x">> \o HexNumeral(n) \o <<";">>
    ELSE <<"&", "#">> \o NatChars(n) \o <<";">>

RECURSIVE JoinSegments(_)
JoinSegments(ids) ==
    IF ids = <<>> THEN <<>>
    ELSE TextSegments[Head(ids)] \o JoinSegments(Tail(ids))

\* key="value" preceded by a space, or nothing when the attribute is absent
AttrText(key, value) ==
    IF value.k = "undefined" THEN <<>>
    ELSE <<" ">> \o key \o <<"=", "\"">> \o value.v \o <<"\"">>

\* a dump of one node tag with the attribute texts attrs
TagDump(attrs) ==
    HIERARCHY_OPEN \o NODE_OPEN \o attrs \o <<" ", "/", ">">> \o HIERARCHY_CLOSE

\* parseUIElements(xml) is called; given records how xml was made
FieldsCalled(xml, given) ==
    [name |-> "parseUIElements", pc |-> "called", xml |-> xml, given |-> given,
     elements |-> <<>>]

InitFields ==
    /\ ADB_SERIAL = Undef
    /\ serialOverride = Undef
    /\ resolvedSerial = Undef
    /\ resolvingSerial = NoPromise
    /\ devices = [d \in DeviceSerials |-> "device"]
    /\ phase = "serving"
    /\ call = [p \in Procs |-> Idle]
    /\ returned = Nothing
    /\ resolvedFrom = NoReq
    /\ \/ \E flag \in 1..Len(FlagKeys), value \in 1..Len(FlagTexts),
             bounds \in 1..Len(BoundsTexts) :
              tool = FieldsCalled(
                         TagDump(AttrText(FlagKeys[flag], FlagTexts[value])
                                 \o AttrText(K_bounds, BoundsTexts[bounds])),
                         [kind |-> "flags", flag |-> flag, value |-> value,
                          bounds |-> bounds])
       \/ \E ids \in UNION {[1..n -> 1..Len(TextSegments)] : n \in 0..MaxSegments} :
              tool = FieldsCalled(
                         TagDump(AttrText(K_text, Str(JoinSegments(ids)))),
                         [kind |-> "text", ids |-> ids])
       \/ \E code \in EntityCodes, radix \in {10, 16} :
              tool = FieldsCalled(
                         TagDump(AttrText(K_text, Str(NumericReference(code, radix)))),
                         [kind |-> "code", code |-> code, radix |-> radix])

NextFields == Parse

SpecFields == InitFields /\ [][NextFields]_vars

----------------------------------------------------------------------------
(* ui-parser.ts: normalizeValue, findElements *)

\* a criteria flag, given as "undefined", "true" or "false", is set
Flag(b) == b = "true"

\* value.replace(/\s+/g, ' '): every run of white space becomes one space
RECURSIVE CollapseWhiteSpace(_)
CollapseWhiteSpace(s) ==
    IF s = <<>> THEN <<>>
    ELSE IF IsStrWhiteSpace(Head(s))
    THEN <<" ">> \o CollapseWhiteSpace(SubSeq(s, SkipWhiteSpace(s, 1), Len(s)))
    ELSE <<Head(s)>> \o CollapseWhiteSpace(Tail(s))

\* a normalization that collapses white space but keeps it at the ends
normalizeValue_NoTrim(value, criteria) ==
    LET spaced == IF Flag(criteria.normalizeWhitespace)
                  THEN CollapseWhiteSpace(value) ELSE value
    IN  IF Flag(criteria.caseInsensitive) THEN toLowerCase(spaced) ELSE spaced

\* function normalizeValue(value: string, criteria: FindCriteria)
normalizeValue(value, criteria) ==
    LET spaced == IF Flag(criteria.normalizeWhitespace)
                  THEN trim(CollapseWhiteSpace(value)) ELSE value
    IN  IF Flag(criteria.caseInsensitive) THEN toLowerCase(spaced) ELSE spaced

\* a folding that also normalizes white space
foldCase_Normalized(value, criteria) == normalizeValue(value, criteria)

\* criteria.caseInsensitive ? value.toLowerCase() : value
foldCase(value, criteria) ==
    IF Flag(criteria.caseInsensitive) THEN toLowerCase(value) ELSE value

\* criterion !== undefined ? normalizeValue(criterion, criteria) : undefined
normalizedCriterion(criterion, criteria) ==
    IF criterion.k = "undefined" THEN Undef
    ELSE Str(normalizeValue(criterion.v, criteria))

\* criterion ? foldCase(criterion) : undefined
foldedCriterion(criterion, criteria) ==
    IF Truthy(criterion) THEN Str(foldCase(criterion.v, criteria)) ELSE Undef

\* a comparison that reads an undefined boolean criterion as false
BooleanDiffers_UndefinedIsFalse(criterion, flag) == flag # (criterion = "true")

\* criterion !== undefined && flag !== criterion, for a boolean criterion
\* given as "undefined", "true" or "false"
BooleanDiffers(criterion, flag) ==
    criterion # "undefined" /\ flag # (criterion = "true")

\* the callback of elements.filter in findElements
Keeps(element, criteria) ==
    LET textValue == normalizeValue(element.text, criteria)
        contentDescValue == normalizeValue(element.contentDesc, criteria)
        textCriteria == normalizedCriterion(criteria.text, criteria)
        textContainsCriteria == normalizedCriterion(criteria.textContains, criteria)
        contentDescCriteria == normalizedCriterion(criteria.contentDesc, criteria)
        contentDescContainsCriteria ==
            normalizedCriterion(criteria.contentDescContains, criteria)
        resourceIdValue == foldCase(element.resourceId, criteria)
        resourceIdCriteria == foldedCriterion(criteria.resourceId, criteria)
        resourceIdContainsCriteria ==
            foldedCriterion(criteria.resourceIdContains, criteria)
    IN  IF textCriteria.k # "undefined" /\ textValue # textCriteria.v THEN FALSE
        ELSE IF /\ textContainsCriteria.k # "undefined"
                /\ ~includes(textValue, textContainsCriteria.v) THEN FALSE
        ELSE IF /\ criteria.class.k # "undefined"
                /\ foldCase(element.class, criteria)
                       # foldCase(criteria.class.v, criteria) THEN FALSE
        ELSE IF /\ contentDescCriteria.k # "undefined"
                /\ contentDescValue # contentDescCriteria.v THEN FALSE
        ELSE IF /\ contentDescContainsCriteria.k # "undefined"
                /\ ~includes(contentDescValue, contentDescContainsCriteria.v)
        THEN FALSE
        ELSE IF /\ resourceIdCriteria.k # "undefined"
                /\ resourceIdValue # resourceIdCriteria.v THEN FALSE
        ELSE IF /\ resourceIdContainsCriteria.k # "undefined"
                /\ ~includes(resourceIdValue, resourceIdContainsCriteria.v)
        THEN FALSE
        ELSE IF BooleanDiffers(criteria.checkable, element.checkable) THEN FALSE
        ELSE IF BooleanDiffers(criteria.clickable, element.clickable) THEN FALSE
        ELSE TRUE

\* export function findElements(elements: UIElement[], criteria: FindCriteria)
findElements(elements, criteria) ==
    SelectSeq(elements, LAMBDA element : Keeps(element, criteria))

----------------------------------------------------------------------------
(* SpecFind: findElements applied to element lists and criteria *)

MaxList == 2

V_Empty == <<>>
V_Plain == <<"a", " ", "b">>
V_Spaced == <<" ", "A", " ", " ", "b", " ">>
V_Lines == <<"A", "\n", "B">>
V_Part == <<"B">>
V_Upper == <<"A", " ", "B">>

\* an element, by the fields findElements reads
FindEl(text, contentDesc, class, resourceId, checkable, clickable) ==
    [text |-> text, contentDesc |-> contentDesc, class |-> class,
     resourceId |-> resourceId, checkable |-> checkable, clickable |-> clickable]

FindEls ==
    {FindEl(V_Plain, V_Empty, V_Plain, V_Plain, FALSE, TRUE),
     FindEl(V_Spaced, V_Plain, V_Spaced, V_Spaced, TRUE, FALSE),
     FindEl(V_Empty, V_Empty, V_Empty, V_Empty, FALSE, FALSE),
     FindEl(V_Lines, V_Spaced, V_Lines, V_Lines, TRUE, TRUE)}

FindLists == UNION {[1..n -> FindEls] : n \in 0..MaxList}

StringFields ==
    {"text", "textContains", "class", "resourceId", "resourceIdContains",
     "contentDesc", "contentDescContains"}

CriterionValues == {V_Empty, V_Plain, V_Spaced, V_Lines, V_Part, V_Upper}

BooleanArgs == {"undefined", "true", "false"}

\* the criteria with every field undefined
NoCriteria ==
    [text |-> Undef, textContains |-> Undef, class |-> Undef,
     resourceId |-> Undef, resourceIdContains |-> Undef, contentDesc |-> Undef,
     contentDescContains |-> Undef, checkable |-> "undefined",
     clickable |-> "undefined", normalizeWhitespace |-> "undefined",
     caseInsensitive |-> "undefined"]

\* the criteria objects: at most one string field, any boolean fields and flags
CriteriaArgs ==
    LET strings == {NoCriteria}
                   \cup {[NoCriteria EXCEPT ![f] = Str(v)] :
                             f \in StringFields, v \in CriterionValues}
    IN  {[c EXCEPT !.checkable = checkable, !.clickable = clickable,
                   !.normalizeWhitespace = normalizeWhitespace,
                   !.caseInsensitive = caseInsensitive] :
             c \in strings, checkable \in BooleanArgs, clickable \in BooleanArgs,
             normalizeWhitespace \in BooleanArgs, caseInsensitive \in BooleanArgs}

\* findElements(elements, criteria) is called
FindCalled(elements, criteria) ==
    [name |-> "findElements", pc |-> "called", elements |-> elements,
     criteria |-> criteria, result |-> <<>>, again |-> <<>>]

InitFind ==
    /\ ADB_SERIAL = Undef
    /\ serialOverride = Undef
    /\ resolvedSerial = Undef
    /\ resolvingSerial = NoPromise
    /\ devices = [d \in DeviceSerials |-> "device"]
    /\ phase = "serving"
    /\ call = [p \in Procs |-> Idle]
    /\ returned = Nothing
    /\ resolvedFrom = NoReq
    /\ \E elements \in FindLists, criteria \in CriteriaArgs :
           tool = FindCalled(elements, criteria)

\* findElements runs to its return
Find ==
    /\ tool.name = "findElements"
    /\ tool.pc = "called"
    /\ tool' = [tool EXCEPT !.pc = "done",
                            !.result = findElements(tool.elements, tool.criteria)]
    /\ UNCHANGED <<Config, serialOverride, resolvedSerial, resolvingSerial,
                   devices, phase, call, returned, resolvedFrom>>

\* findElements is applied to its own result with the same criteria
FindAgain ==
    /\ tool.name = "findElements"
    /\ tool.pc = "done"
    /\ tool' = [tool EXCEPT !.pc = "again",
                            !.again = findElements(tool.result, tool.criteria)]
    /\ UNCHANGED <<Config, serialOverride, resolvedSerial, resolvingSerial,
                   devices, phase, call, returned, resolvedFrom>>

NextFind == Find \/ FindAgain

SpecFind == InitFind /\ [][NextFind]_vars

\* findElements has returned
Found == tool.name = "findElements" /\ tool.pc \in {"done", "again"}

----------------------------------------------------------------------------
(* ui-parser.ts: elementLabel, generateSummary *)

MaxSummaryItems == 8

NO_ELEMENTS == 
    <<"N", "o", " ", "U", "I", " ", "e", "l", "e", "m", "e", "n", "t", "s",
      " ", "f", "o", "u", "n", "d", ".">>

\* the literal pieces of `Found ${n} elements (${m} interactive).` and of
\* `${base} Interactive: ${items}`
FOUND == <<"F", "o", "u", "n", "d", " ">>
ELEMENTS == <<" ", "e", "l", "e", "m", "e", "n", "t", "s", " ", "(">>
INTERACTIVE ==
    <<" ", "i", "n", "t", "e", "r", "a", "c", "t", "i", "v", "e", ")", ".">>
ITEMS ==
    <<" ", "I", "n", "t", "e", "r", "a", "c", "t", "i", "v", "e", ":", " ">>

\* a label that falls back to the index as soon as the text is empty
elementLabel_TextOnly(element) ==
    IF element.text # <<>> THEN element.text
    ELSE <<"#">> \o IntChars(element.index)

\* function elementLabel(element: UIElement)
elementLabel(element) ==
    IF element.text # <<>> THEN element.text
    ELSE IF element.contentDesc # <<>> THEN element.contentDesc
    ELSE IF element.resourceId # <<>> THEN element.resourceId
    ELSE IF element.class # <<>> THEN element.class
    ELSE <<"#">> \o IntChars(element.index)

\* items.join(separator)
RECURSIVE join(_, _)
join(items, separator) ==
    IF items = <<>> THEN <<>>
    ELSE IF Len(items) = 1 THEN items[1]
    ELSE items[1] \o separator \o join(Tail(items), separator)

\* the text of one summary item: `${index + 1}. ${label}${suffix}`
SummaryItem(element, index) ==
    LET flags == (IF element.clickable THEN <<K_clickable>> ELSE <<>>)
                 \o (IF element.checkable THEN <<K_checkable>> ELSE <<>>)
                 \o (IF element.scrollable THEN <<K_scrollable>> ELSE <<>>)
        suffix == IF Len(flags) > 0
                  THEN <<" ", "(">> \o join(flags, <<",", " ">>) \o <<")">>
                  ELSE <<>>
    IN  IntChars(index + 1) \o <<".", " ">> \o elementLabel(element) \o suffix

\* export function generateSummary(elements: UIElement[])
generateSummary(elements) ==
    IF Len(elements) = 0 THEN NO_ELEMENTS
    ELSE LET interactive == SelectSeq(elements, isInteractive)
             shown == SubSeq(interactive, 1,
                             IF Len(interactive) < MaxSummaryItems
                             THEN Len(interactive) ELSE MaxSummaryItems)
             summaryItems == [i \in 1..Len(shown) |-> SummaryItem(shown[i], i - 1)]
             base == FOUND \o IntChars(Len(elements))
                     \o ELEMENTS \o IntChars(Len(interactive)) \o INTERACTIVE
         IN  IF Len(summaryItems) = 0 THEN base
             ELSE base \o ITEMS \o join(summaryItems, <<" ", "|", " ">>)

----------------------------------------------------------------------------
(* SpecSummary: generateSummary applied to element lists *)

MaxSummary == 9

\* an element, by the fields generateSummary reads
SumEl(index, text, contentDesc, resourceId, class, clickable, checkable, scrollable) ==
    [index |-> index, text |-> text, contentDesc |-> contentDesc,
     resourceId |-> resourceId, class |-> class, clickable |-> clickable,
     checkable |-> checkable, scrollable |-> scrollable]

\* a button, a plain text and an unlabelled scrollable check box
SumEls ==
    {SumEl(0, <<"O", "K">>, <<>>, <<>>, <<"B">>, TRUE, FALSE, FALSE),
     SumEl(1, <<"H", "i">>, <<>>, <<>>, <<"T">>, FALSE, FALSE, FALSE),
     SumEl(2, <<>>, <<>>, <<>>, <<>>, FALSE, TRUE, TRUE)}

SumLists == UNION {[1..n -> SumEls] : n \in 0..MaxSummary}

\* single elements with every combination of labels and flags
SumSingles ==
    {SumEl(index, text, contentDesc, resourceId, class, clickable, checkable,
           scrollable) :
         index \in {0, 12, 0 - 3}, text \in {<<>>, <<"t">>},
         contentDesc \in {<<>>, <<"d">>}, resourceId \in {<<>>, <<"r">>},
         class \in {<<>>, <<"c">>}, clickable \in BOOLEAN,
         checkable \in BOOLEAN, scrollable \in BOOLEAN}

\* generateSummary(elements) is called
SummaryCalled(elements) ==
    [name |-> "generateSummary", pc |-> "called", elements |-> elements,
     summary |-> <<>>]

InitSummary ==
    /\ ADB_SERIAL = Undef
    /\ serialOverride = Undef
    /\ resolvedSerial = Undef
    /\ resolvingSerial = NoPromise
    /\ devices = [d \in DeviceSerials |-> "device"]
    /\ phase = "serving"
    /\ call = [p \in Procs |-> Idle]
    /\ returned = Nothing
    /\ resolvedFrom = NoReq
    /\ \/ \E elements \in SumLists : tool = SummaryCalled(elements)
       \/ \E element \in SumSingles : tool = SummaryCalled(<<element>>)

\* generateSummary runs to its return
Summarize ==
    /\ tool.name = "generateSummary"
    /\ tool.pc = "called"
    /\ tool' = [tool EXCEPT !.pc = "done",
                            !.summary = generateSummary(tool.elements)]
    /\ UNCHANGED <<Config, serialOverride, resolvedSerial, resolvingSerial,
                   devices, phase, call, returned, resolvedFrom>>

NextSummary == Summarize

SpecSummary == InitSummary /\ [][NextSummary]_vars

\* generateSummary has returned
Summarized == tool.name = "generateSummary" /\ tool.pc = "done"

----------------------------------------------------------------------------
(* tools/android.ts: the state expectations of waitForElement and
   assertElement *)

\* shouldBeChecked, shouldBeEnabled, shouldBeClickable: boolean | undefined
Expect(shouldBeChecked, shouldBeEnabled, shouldBeClickable) ==
    [shouldBeChecked |-> shouldBeChecked, shouldBeEnabled |-> shouldBeEnabled,
     shouldBeClickable |-> shouldBeClickable]

\* a test that reads an expectation that was not given as false
stateMatches_UndefinedIsFalse(element, expect) ==
    /\ element.checked = (expect.shouldBeChecked = "true")
    /\ element.enabled = (expect.shouldBeEnabled = "true")
    /\ element.clickable = (expect.shouldBeClickable = "true")

\* const stateMatches = (element: UIElement) => { ... }
stateMatches(element, expect) ==
    IF /\ expect.shouldBeChecked # "undefined"
       /\ element.checked # (expect.shouldBeChecked = "true") THEN FALSE
    ELSE IF /\ expect.shouldBeEnabled # "undefined"
            /\ element.enabled # (expect.shouldBeEnabled = "true") THEN FALSE
    ELSE IF /\ expect.shouldBeClickable # "undefined"
            /\ element.clickable # (expect.shouldBeClickable = "true") THEN FALSE
    ELSE TRUE

\* null, where an element is expected
NoElement == [class |-> <<>>, clickable |-> FALSE, checkable |-> FALSE,
              scrollable |-> FALSE]

\* a search that looks at the first match only
findStateMatch_FirstOnly(matches, expect) ==
    IF matches # <<>> /\ stateMatches(matches[1], expect)
    THEN matches[1] ELSE NoElement

\* matches.find(stateMatches); NoElement for undefined
findStateMatch(matches, expect) ==
    LET hits == SelectSeq(matches, LAMBDA element : stateMatches(element, expect))
    IN  IF hits = <<>> THEN NoElement ELSE hits[1]

\* an element, by the fields findElements and stateMatches read
StateEl(text, checked, enabled, clickable) ==
    [text |-> text, contentDesc |-> V_Empty, class |-> V_Plain,
     resourceId |-> V_Empty, checkable |-> TRUE, clickable |-> clickable,
     checked |-> checked, enabled |-> enabled]

\* the criteria the two handlers pass to findElements: no checkable, no
\* clickable
StateCriteria == {NoCriteria, [NoCriteria EXCEPT !.text = Str(V_Plain)]}

----------------------------------------------------------------------------
(* SpecWait: one waitForElement call *)

\* the `timeout` and `interval` arguments (finite numbers, or absent)
TimeoutArgs == {NoNum, Num(-100), Num(0), Num(120)}
IntervalArgs == {NoNum, Num(-5), Num(0), Num(70)}

\* how long a fetchUiElements call takes, and how late a timer fires (ms)
FetchDurations == {0, 30}
TimerLateness == {0, 10}

\* by how much Date.now() advances between `const start = Date.now()` and
\* the first test of the loop (ms)
ClockTicks == {0, 1}

MaxWaitList == 2

\* the elements a fetch returns
WaitEls ==
    {StateEl(V_Empty, TRUE, TRUE, TRUE), StateEl(V_Plain, FALSE, TRUE, TRUE),
     StateEl(V_Plain, TRUE, FALSE, FALSE), StateEl(V_Plain, TRUE, TRUE, FALSE)}
WaitLists == UNION {[1..n -> WaitEls] : n \in 0..MaxWaitList}

\* the lists a fetch may return to call t: every list for a call with a given
\* timeout; the empty list and one element for a call with the default
\* timeout, whose 10 s of polling are explored in full
WaitScreens(t) ==
    IF t.timeout = NoNum
    THEN {<<>>, <<StateEl(V_Plain, TRUE, TRUE, TRUE)>>}
    ELSE WaitLists

\* the state expectations of a call
WaitExpects ==
    {Expect("undefined", "undefined", "undefined"),
     Expect("true", "undefined", "undefined"),
     Expect("undefined", "false", "undefined"),
     Expect("true", "true", "false"),
     Expect("false", "undefined", "true")}

\* The locals of one waitForElement call. now: Date.now(). History: began
\* (Date.now() when the latest fetch began), fetches (fetches begun),
\* elements (what the latest fetch returned).
WaitCalled(timeout, interval, criteria, expect) ==
    [name |-> "waitForElement", pc |-> "called", timeout |-> timeout,
     interval |-> interval, criteria |-> criteria, expect |-> expect,
     timeoutMs |-> 0, intervalMs |-> 0, now |-> 0,
     start |-> 0, began |-> 0, fetches |-> 0, threw |-> FALSE, found |-> FALSE,
     element |-> NoElement, elapsed |-> 0, elements |-> <<>>]

\* while (Date.now() - start <= timeoutMs) { fetch ... }; after the loop:
\* return ok(..., {found: false, element: null, elapsed})
WaitLoop(t) ==
    IF t.now - t.start <= t.timeoutMs
    THEN [t EXCEPT !.pc = "awaitFetch", !.began = t.now, !.fetches = @ + 1]
    ELSE [t EXCEPT !.pc = "done", !.found = FALSE, !.elapsed = t.now - t.start]

\* the handler up to its first await: start is read, then the loop test reads
\* the clock again, tick ms later
WaitForElement(tick) ==
    /\ tool.pc = "called"
    /\ tool' = WaitLoop([tool EXCEPT !.timeoutMs = ClampTimeout(tool.timeout),
                                     !.intervalMs = ClampInterval(tool.interval),
                                     !.start = tool.now,
                                     !.now = tool.now + tick])
    /\ UNCHANGED <<Config, serialOverride, resolvedSerial, resolvingSerial,
                   resolvedFrom, devices, phase, call, returned>>

\* await fetchUiElements(serial) ends after dur ms (ok: it did not throw) with
\* elements; matches = findElements(...); matched = matches.find(stateMatches)
WaitFetchDone(ok, elements, dur) ==
    /\ tool.pc = "awaitFetch"
    /\ LET t == [tool EXCEPT !.now = @ + dur]
           matches == findElements(elements, tool.criteria)
           matched == findStateMatch(matches, tool.expect)
       IN  tool' = IF ~ok
                   THEN [t EXCEPT !.pc = "done", !.threw = TRUE]
                   ELSE IF matched # NoElement
                   THEN [t EXCEPT !.pc = "done", !.found = TRUE,
                                  !.element = matched, !.elements = elements,
                                  !.elapsed = t.now - t.start]
                   ELSE [t EXCEPT !.pc = "awaitDelay", !.elements = elements]
    /\ UNCHANGED <<Config, serialOverride, resolvedSerial, resolvingSerial,
                   resolvedFrom, devices, phase, call, returned>>

\* setTimeout(resolve, intervalMs) fires, late ms late; the loop test follows
WaitDelayDone(late) ==
    /\ tool.pc = "awaitDelay"
    /\ tool' = WaitLoop([tool EXCEPT !.now = @ + Max(0, tool.intervalMs) + late])
    /\ UNCHANGED <<Config, serialOverride, resolvedSerial, resolvingSerial,
                   resolvedFrom, devices, phase, call, returned>>

InitWait ==
    /\ ADB_SERIAL = Undef
    /\ serialOverride = Undef
    /\ resolvedSerial = Undef
    /\ resolvingSerial = NoPromise
    /\ devices = [d \in DeviceSerials |-> "device"]
    /\ phase = "serving"
    /\ call = [p \in Procs |-> Idle]
    /\ returned = Nothing
    /\ resolvedFrom = NoReq
    /\ \E timeout \in TimeoutArgs, interval \in IntervalArgs,
          criteria \in StateCriteria, expect \in WaitExpects :
           /\ timeout = NoNum
              => /\ criteria = NoCriteria
                 /\ expect = Expect("undefined", "undefined", "undefined")
           /\ tool = WaitCalled(timeout, interval, criteria, expect)

WaitHandlerRuns == \E tick \in ClockTicks : WaitForElement(tick)

WaitFetchReturns ==
    \E ok \in BOOLEAN, elements \in WaitScreens(tool), dur \in FetchDurations :
        WaitFetchDone(ok, elements, dur)

WaitTimerFires == \E late \in TimerLateness : WaitDelayDone(late)

NextWait ==
    \/ WaitHandlerRuns
    \/ WaitFetchReturns
    \/ WaitTimerFires

\* every fetch returns, every timer fires, the handler runs when called
SpecWait ==
    /\ InitWait
    /\ [][NextWait]_vars
    /\ WF_vars(WaitHandlerRuns)
    /\ WF_vars(WaitFetchReturns)
    /\ WF_vars(WaitTimerFires)

----------------------------------------------------------------------------
(* SpecAssert: one assertElement call *)

MaxAssertList == 2

\* the elements a fetch returns: one without text, and every state of an
\* element with text "a b"
AssertEls ==
    {StateEl(V_Empty, TRUE, TRUE, TRUE)}
    \cup {StateEl(V_Plain, checked, enabled, clickable) :
              checked \in BOOLEAN, enabled \in BOOLEAN, clickable \in BOOLEAN}
AssertLists == UNION {[1..n -> AssertEls] : n \in 0..MaxAssertList}

AssertExpects ==
    {Expect(shouldBeChecked, shouldBeEnabled, shouldBeClickable) :
         shouldBeChecked \in BooleanArgs, shouldBeEnabled \in BooleanArgs,
         shouldBeClickable \in BooleanArgs}

\* The arguments and locals of one assertElement call. History: elements
\* (what the fetch returned).
AssertCalled(criteria, shouldExist, expect) ==
    [name |-> "assertElement", pc |-> "called", criteria |-> criteria,
     shouldExist |-> shouldExist, expect |-> expect, elements |-> <<>>,
     matches |-> <<>>, threw |-> FALSE, passed |-> FALSE,
     message |-> "", actual |-> NoElement]

\* the handler up to `await fetchUiElements(serial)`
AssertElement ==
    /\ tool.name = "assertElement"
    /\ tool.pc = "called"
    /\ tool' = [tool EXCEPT !.pc = "awaitFetch"]
    /\ UNCHANGED <<Config, serialOverride, resolvedSerial, resolvingSerial,
                   resolvedFrom, devices, phase, call, returned>>

\* the handler after the fetch, which returned elements (ok) or threw
AssertFetchDone(ok, elements) ==
    /\ tool.name = "assertElement"
    /\ tool.pc = "awaitFetch"
    /\ LET matches == findElements(elements, tool.criteria)
           expectExist == IF tool.shouldExist = "undefined" THEN TRUE
                          ELSE Flag(tool.shouldExist)
           matched == findStateMatch(matches, tool.expect)
           t == [tool EXCEPT !.pc = "done", !.elements = elements,
                             !.matches = matches]
       IN  tool' =
             IF ~ok THEN [tool EXCEPT !.pc = "done", !.threw = TRUE]
             ELSE IF ~expectExist
             THEN IF Len(matches) = 0
                  THEN [t EXCEPT !.passed = TRUE, !.actual = NoElement,
                                 !.message = "Element not found as expected."]
                  ELSE [t EXCEPT !.passed = FALSE, !.actual = matches[1],
                                 !.message = "Element found but should not exist."]
             ELSE IF Len(matches) = 0
             THEN [t EXCEPT !.passed = FALSE, !.actual = NoElement,
                            !.message = "Element not found."]
             ELSE IF matched = NoElement
             THEN [t EXCEPT !.passed = FALSE, !.actual = matches[1],
                            !.message = "Element found but state does not match."]
             ELSE [t EXCEPT !.passed = TRUE, !.actual = matched,
                            !.message = "Element assertion passed."]
    /\ UNCHANGED <<Config, serialOverride, resolvedSerial, resolvingSerial,
                   resolvedFrom, devices, phase, call, returned>>

InitAssert ==
    /\ ADB_SERIAL = Undef
    /\ serialOverride = Undef
    /\ resolvedSerial = Undef
    /\ resolvingSerial = NoPromise
    /\ devices = [d \in DeviceSerials |-> "device"]
    /\ phase = "serving"
    /\ call = [p \in Procs |-> Idle]
    /\ returned = Nothing
    /\ resolvedFrom = NoReq
    /\ \E criteria \in StateCriteria, shouldExist \in BooleanArgs,
          expect \in AssertExpects :
           tool = AssertCalled(criteria, shouldExist, expect)

AssertFetchReturns ==
    \E ok \in BOOLEAN, elements \in AssertLists : AssertFetchDone(ok, elements)

NextAssert ==
    \/ AssertElement
    \/ AssertFetchReturns

SpecAssert == InitAssert /\ [][NextAssert]_vars

----------------------------------------------------------------------------
(* SpecTapSerial: the adb commands of one tapElement call, beside setDevice
   calls of other invocations *)

\* The fetchUiElements(serial) call of tapElement: one fetchUiXml, as one
\* attempt of the retry loop. History: tapTarget (the serial the tap command
\* was given with -s; Undef: no tap command was started), tapThrew.
TapSerialCalled(serial) ==
    [name |-> "tapElementCommands", pc |-> "idle",
     onlyInteractive |-> "undefined", attempts |-> 1,
     serial |-> normalizeSerial(serial),
     attempt |-> 0, xmlAttempt |-> 0, lastElements |-> <<>>, lastError |-> NoMsg,
     cmd |-> "none", target |-> Null, dumpTarget |-> Null, targets |-> {},
     fetched |-> <<>>, failed |-> FALSE, retried |-> FALSE, result |-> NoResult,
     tapTarget |-> Undef, tapThrew |-> FALSE]

\* const elements = await fetchUiElements(serial), up to the first suspension
\* point
TapSerialFetch ==
    /\ tool.name = "tapElementCommands"
    /\ tool.pc = "idle"
    /\ FetchExec(tool, "dump")
    /\ returned' = Nothing
    /\ UNCHANGED <<Config, serialOverride, resolvedSerial, resolvedFrom,
                   devices, phase, call>>

\* the fetch has returned; the handler selects an element (tap: one with
\* valid bounds was selected) and calls
\* adbShell(`input tap x y`, {serial: normalizeSerial(serial)}), which runs up
\* to the first suspension point of adbExec
TapSerialExec(tap) ==
    /\ tool.name = "tapElementCommands"
    /\ tool.pc = "done"
    /\ IF tool.result.threw \/ ~tap
       THEN /\ tool' = [tool EXCEPT !.pc = "returned",
                                    !.tapThrew = tool.result.threw]
            /\ UNCHANGED resolvingSerial
       ELSE IF tool.serial.k = "string" /\ trim(tool.serial.v) # <<>>
       THEN /\ tool' = [tool EXCEPT !.pc = "awaitTapAssert", !.cmd = "tap"]
            /\ UNCHANGED resolvingSerial
       ELSE IF MemoHit(TRUE)
       THEN /\ tool' = [tool EXCEPT !.pc = "awaitTap", !.cmd = "tap",
                            !.tapTarget = IF Truthy(resolvedSerial)
                                          THEN resolvedSerial ELSE Null]
            /\ UNCHANGED resolvingSerial
       ELSE /\ tool' = [tool EXCEPT !.pc = "awaitTapResolving", !.cmd = "tap"]
            /\ resolvingSerial' =
                   IF Resolving THEN resolvingSerial
                   ELSE [active |-> TRUE, strict |-> TRUE, req |-> getRequestedSerial]
    /\ returned' = Nothing
    /\ UNCHANGED <<Config, serialOverride, resolvedSerial, resolvedFrom,
                   devices, phase, call>>

\* adbListDevices() of assertSerialAvailable ends, for the tap command
TapSerialAssertDone(ok) ==
    /\ tool.pc = "awaitTapAssert"
    /\ LET error == IF ok
                    THEN assertSerialAvailable(trim(tool.serial.v), adbListDevices)
                    ELSE ExecError
       IN  tool' = IF error = NoMsg
                   THEN [tool EXCEPT !.pc = "awaitTap",
                                     !.tapTarget = Str(trim(tool.serial.v))]
                   ELSE [tool EXCEPT !.pc = "returned", !.tapThrew = TRUE]
    /\ returned' = Nothing
    /\ UNCHANGED <<Config, serialOverride, resolvedSerial, resolvingSerial,
                   resolvedFrom, devices, phase, call>>

\* the resolution the tap command awaits settles (as ResolvingDone, with the
\* tap's adbExec as the waiter)
TapSerialResolvingDone(ok) ==
    /\ tool.pc = "awaitTapResolving"
    /\ resolvingSerial.active
    /\ LET r == IF ok
                THEN computeAdbSerialState(resolvingSerial.req,
                                           resolvingSerial.strict, adbListDevices)
                ELSE Throw(resolvingSerial.req, ExecError)
       IN  /\ resolvedSerial' = Memoized(r)
           /\ resolvedFrom' = IF r.threw THEN resolvedFrom ELSE resolvingSerial.req
           /\ tool' = IF r.threw
                      THEN [tool EXCEPT !.pc = "returned", !.tapThrew = TRUE]
                      ELSE [tool EXCEPT !.pc = "awaitTap",
                                !.tapTarget = IF Truthy(r.serial) THEN r.serial
                                              ELSE Null]
    /\ resolvingSerial' = NoPromise
    /\ returned' = Nothing
    /\ UNCHANGED <<Config, serialOverride, devices, phase, call>>

\* the tap command ends and the handler returns
TapSerialCommandDone(ok) ==
    /\ tool.pc = "awaitTap"
    /\ tool' = [tool EXCEPT !.pc = "returned", !.tapThrew = ~ok]
    /\ returned' = Nothing
    /\ UNCHANGED <<Config, serialOverride, resolvedSerial, resolvingSerial,
                   resolvedFrom, devices, phase, call>>

InitTapSerial ==
    /\ \E serialEnv \in EnvValues : ADB_SERIAL = ConfigAdbSerial(serialEnv)
    /\ serialOverride = Undef
    /\ resolvedSerial = Undef
    /\ resolvingSerial = NoPromise
    /\ devices \in [DeviceSerials -> DeviceStates]
    /\ phase = "serving"
    /\ call = [p \in Procs |-> Idle]
    /\ returned = Nothing
    /\ resolvedFrom = NoReq
    /\ \E serial \in FetchSerialArgs : tool = TapSerialCalled(serial)

NextTapSerial ==
    \/ TapSerialFetch
    \/ \E ok \in BOOLEAN : FetchAssertDone(ok)
    \/ \E ok \in BOOLEAN : FetchResolvingDone(ok)
    \/ \E ok \in BOOLEAN, elements \in Screens : FetchCommandDone(ok, elements)
    \/ FetchXmlDelayDone
    \/ \E tap \in BOOLEAN : TapSerialExec(tap)
    \/ \E ok \in BOOLEAN : TapSerialAssertDone(ok)
    \/ \E ok \in BOOLEAN : TapSerialResolvingDone(ok)
    \/ \E ok \in BOOLEAN : TapSerialCommandDone(ok)
    \/ \E serial \in SetDeviceOverrides : SetAdbSerialOverrideCall(serial)
    \/ \E d \in DeviceSerials, st \in DeviceStates : DevicesChange(d, st)

SpecTapSerial == InitTapSerial /\ [][NextTapSerial]_vars

----------------------------------------------------------------------------
(* Properties *)

OnlineNow == Online(devices)

\* the token 'auto' in any letter case, surrounded by any whitespace
IsAutoToken(x) == x.k = "string" /\ toLowerCase(trim(x.v)) = AUTO

\* the per-call serial of a device command: its `serial` argument unless that
\* is absent, blank or the token
PerCallSerial(arg) ==
    IF arg.k = "string" /\ trim(arg.v) # <<>> /\ ~IsAutoToken(arg)
    THEN Str(trim(arg.v))
    ELSE Undef

\* x is the return of a resolveAdbSerial call (direct, from adbExec or from
\* warmUpAdb)
FromResolve(x) == x.via \in {"memo", "resolution"}

\* x rests on a computeAdbSerialState run whose device enumeration succeeded
Enumerated(x) ==
    x.via \in {"resolution", "state"} /\ x.computed.error.kind # "commandFailed"

SerialErrors ==
    {"noDevices", "multipleDevices", "requestedNotFound", "requestedNotFoundNoDevices"}

\* C1: with at least two devices online and no serial requested (no override
\* serial, no environment default), a strict resolveAdbSerial call raises the
\* error naming all online serials, whatever calls came before it.
C1_StrictRaisesOnAmbiguity ==
    \A x \in returned :
        ( /\ FromResolve(x)
          /\ x.call.strict
          /\ ~x.call.stale
          /\ x.computed.error.kind # "commandFailed"
          /\ ~Truthy(serialOverride)
          /\ ~Truthy(ADB_SERIAL)
          /\ Cardinality(OnlineNow) >= 2 )
        => /\ x.res.threw
           /\ x.res.error = Msg("multipleDevices", <<>>, OnlineNow)

\* C2: a strict resolveAdbSerial call is never answered by a resolution that
\* was started for another requested serial than the one in force when the
\* call began, and the memo never holds the result of such a resolution.
C2_NoStaleResolution ==
    /\ \A x \in returned : (FromResolve(x) /\ x.call.strict) => ~x.call.stale
    /\ resolvedSerial # Undef => resolvedFrom = getRequestedSerial

\* C3: right after setAdbSerialOverride returns, whatever its argument, the
\* memo is unset, so a strict resolveAdbSerial cannot be answered from it.
C3_OverrideInvalidatesMemo ==
    \A x \in returned :
        x.call.op = "setAdbSerialOverride"
        => resolvedSerial = Undef /\ ~MemoHit(TRUE)

\* C3 witness: setAdbSerialOverride(undefined) has just returned while a
\* resolution is in flight.
C3_Witness ==
    \E x \in returned :
        /\ x.call.op = "setAdbSerialOverride"
        /\ x.call.arg = Undef
        /\ resolvingSerial.active

\* the target the precedence rule as first stated gives a device command:
\* the first of per-call serial, override and environment default that is
\* online, else the single online device (Undef: the rule names none)
ClaimedTarget(perCall, override, envDefault, online) ==
    IF Truthy(perCall)
    THEN IF perCall.v \in online THEN perCall ELSE Undef
    ELSE IF Truthy(override) /\ override.v \in online THEN override
    ELSE IF Truthy(envDefault) /\ envDefault.v \in online THEN envDefault
    ELSE IF Cardinality(online) = 1 THEN Str(TheOnly(online))
    ELSE Undef

\* the device a command that ran reaches: the serial passed with -s, or, with
\* no -s, the only online device (adb's own default)
Reached(x) ==
    IF x.target = Null /\ Cardinality(OnlineNow) = 1
    THEN Str(TheOnly(OnlineNow))
    ELSE x.target

C4_RequestedByLevel ==
    \A p \in Procs :
        ( /\ call[p].pc = "idle"
          /\ call'[p].pc = "awaitResolving"
          /\ ~resolvingSerial.active )
        => /\ resolvingSerial'.active
           /\ LET asked == resolvingSerial'.req
              IN  /\ Truthy(serialOverride)
                     => asked = [serial |-> serialOverride, source |-> "override"]
                  /\ (serialOverride = Undef /\ Truthy(ADB_SERIAL))
                     => asked = [serial |-> ADB_SERIAL, source |-> "env"]
                  /\ (~Truthy(serialOverride) /\ ~Truthy(ADB_SERIAL))
                     => ~Truthy(asked.serial)

\* C4 amended, second half: a per-call serial that is online is the target
\* whatever override, default and memo are; without one, a command answered by
\* an enumeration runs against the serial that resolution asked for when it is
\* online, and against the single online device when it asked for none.
C4_TargetOfCommand ==
    \A x \in returned :
        (x.call.op = "command" /\ x.res.error.kind # "commandFailed")
        => LET perCall == PerCallSerial(x.call.arg)
               asked == x.computed.requestedSerial
           IN  /\ (Truthy(perCall) /\ perCall.v \in OnlineNow)
                  => x.ran /\ x.target = perCall
               /\ (x.via = "resolution" /\ Truthy(asked) /\ asked.v \in OnlineNow)
                  => x.ran /\ x.target = asked
               /\ (x.via = "resolution" /\ ~Truthy(asked)
                   /\ Cardinality(OnlineNow) = 1)
                  => x.ran /\ x.target = Str(TheOnly(OnlineNow))

C5_NoRequestDecidesByCount ==
    \A x \in returned :
        (Enumerated(x) /\ ~Truthy(x.computed.requestedSerial))
        => LET r == x.computed
               n == Cardinality(OnlineNow)
           IN  /\ n = 1 => /\ ~r.threw
                           /\ r.serial = Str(TheOnly(OnlineNow))
                           /\ r.source = "auto"
                           /\ r.error = NoMsg
               /\ n = 0 => /\ r.error = Msg("noDevices", <<>>, {})
                           /\ r.serial = Null
                           /\ r.threw = x.strict
               /\ n >= 2 => /\ r.error = Msg("multipleDevices", <<>>, OnlineNow)
                            /\ r.serial = Null
                            /\ r.threw = x.strict

\* C5 witness: a strict computation with nothing requested and two devices
\* online has thrown.
C5_Witness ==
    \E x \in returned :
        /\ Enumerated(x)
        /\ ~Truthy(x.computed.requestedSerial)
        /\ Cardinality(OnlineNow) = 2
        /\ x.strict
        /\ x.computed.threw

\* C6: with a serial requested computeAdbSerialState selects it when online
\* (source 'override' or 'env' by origin); else falls back to the only online
\* device with a warning naming both serials and no error, strict or not; else
\* reports an error naming the available serials and selects none.
C6_RequestedSerialDecision ==
    \A x \in returned :
        (Enumerated(x) /\ Truthy(x.computed.requestedSerial))
        => LET r == x.computed
               requested == r.requestedSerial
               n == Cardinality(OnlineNow)
           IN  /\ requested.v \in OnlineNow
                  => /\ ~r.threw
                     /\ r.serial = requested
                     /\ r.source = r.requestedSerialSource
                     /\ r.source \in {"override", "env"}
                     /\ r.warning = NoMsg /\ r.error = NoMsg
               /\ (requested.v \notin OnlineNow /\ n = 1)
                  => /\ ~r.threw
                     /\ r.serial = Str(TheOnly(OnlineNow))
                     /\ r.source = "fallback"
                     /\ r.warning = Msg("fallback", requested.v, OnlineNow)
                     /\ r.error = NoMsg
               /\ (requested.v \notin OnlineNow /\ n # 1)
                  => /\ r.serial = Null
                     /\ r.source = "none"
                     /\ r.error.kind \in {"requestedNotFound",
                                          "requestedNotFoundNoDevices"}
                     /\ r.error.requested = requested.v
                     /\ r.error.serials = OnlineNow
                     /\ r.threw = x.strict

\* C6 witness: a strict computation fell back from the requested serial to
\* the only online device.
C6_Witness ==
    \E x \in returned :
        /\ Enumerated(x)
        /\ x.strict
        /\ x.computed.source = "fallback"
        /\ ~x.computed.threw
        /\ x.computed.requestedSerial.v \notin OnlineNow

\* a step of call p inside adbExec's per-call branch: it enters
\* assertSerialAvailable, or returns from it
PerCallStep(p) ==
    \/ call[p].pc = "idle" /\ call'[p].pc = "awaitAssert"
    \/ call[p].pc = "awaitAssert" /\ call'[p].pc = "idle"

\* what adbExec with a per-call serial hands back, given the devices online
\* when the enumeration ended
C7_PerCallOutcome ==
    \A x \in returned :
        (x.via = "assert" /\ x.res.error.kind # "commandFailed")
        => LET serial == x.call.req.serial
           IN  IF serial.v \in OnlineNow
               THEN ~x.res.threw /\ x.ran /\ x.target = serial
               ELSE /\ x.res.threw
                    /\ x.res.error = Msg("deviceNotFound", serial.v, OnlineNow)
                    /\ ~x.ran
                    /\ x.target = Null

\* C7: adbExec with a per-call serial runs the command against that serial
\* when it is online at the enumeration, raises the error naming the online
\* serials otherwise (no other device is used, the command is not run), and
\* leaves override, memo and in-flight marker as they were.
C7_PerCallSerialBypasses ==
    [][ /\ \A p \in Procs :
               PerCallStep(p)
               => UNCHANGED <<serialOverride, resolvedSerial, resolvingSerial>>
        /\ C7_PerCallOutcome' ]_vars

\* C7 witness: a per-call serial that is offline was refused although another
\* device is online and the memo holds a serial.
C7_Witness ==
    \E x \in returned :
        /\ x.via = "assert"
        /\ x.res.threw
        /\ x.res.error.kind = "deviceNotFound"
        /\ x.res.error.serials # {}
        /\ Truthy(resolvedSerial)

\* C8: the token 'auto', in any letter case, is no serial: as ADB_SERIAL it
\* leaves no environment default; as the argument of setAdbSerialOverride or
\* setDevice (trimmed) it leaves no requested serial; as the per-call serial
\* of a command (trimmed) the command resolves like one without a serial.
C8_AutoIsNoSerial ==
    /\ ~(Truthy(ADB_SERIAL) /\ toLowerCase(ADB_SERIAL.v) = AUTO)
    /\ \A x \in returned :
           (x.call.op = "setAdbSerialOverride" /\ IsAutoToken(x.call.arg))
           => serialOverride = Null /\ ~Truthy(getRequestedSerial.serial)
    /\ \A p \in Procs :
           /\ (call[p].op = "setDevice" /\ IsAutoToken(call[p].arg))
              => ~Truthy(call[p].req.serial)
           /\ (call[p].op = "command" /\ IsAutoToken(call[p].arg))
              => call[p].pc = "awaitResolving"
    /\ \A x \in returned :
           (x.call.op = "command" /\ IsAutoToken(x.call.arg)) => FromResolve(x)

\* C8 witness: a command called with serial 'AuTo ' was answered by an
\* enumeration that auto-selected the only online device.
C8_Witness ==
    \E x \in returned :
        /\ x.call.op = "command"
        /\ x.call.arg = Str(AutoSpelled)
        /\ x.via = "resolution"
        /\ x.computed.source = "auto"
        /\ x.ran

\* C9: after setDevice with 'auto' or with no serial, the requested serial is
\* the environment default (source 'env') when one is configured, and none
\* only when there is no environment default.
C9_ClearRestoresEnvDefault ==
    \A p \in Procs :
        (call[p].op = "setDevice"
         /\ (call[p].arg = Undef \/ IsAutoToken(call[p].arg)))
        => IF Truthy(ADB_SERIAL)
           THEN call[p].req = [serial |-> ADB_SERIAL, source |-> "env"]
           ELSE ~Truthy(call[p].req.serial)

\* C10: getAdbSerialState always returns a state record, with serial null and
\* an error message when the computation threw, and a non-strict
\* resolveAdbSerial never throws a serial-resolution error.
C10_NonStrictNeverRaises ==
    \A x \in returned :
        /\ x.via = "state"
           => /\ ~x.res.threw
              /\ x.computed.threw => (x.res.serial = Null /\ x.res.error # NoMsg)
        /\ (FromResolve(x) /\ ~x.call.strict)
           => ~(x.res.threw /\ x.res.error.kind \in SerialErrors)

\* C11: once a resolution has stored a result, the memo changes only when
\* setAdbSerialOverride resets it or a resolution started by a non-strict
\* call settles, and a strict resolveAdbSerial call made meanwhile enumerates
\* nothing and is answered with the memoised value, whatever the devices are.
C11_MemoKeptForLifetime ==
    [][ /\ resolvedSerial # Undef
           => /\ \A p \in Procs :
                     ~(/\ call[p].pc = "idle"
                       /\ call'[p].pc = "awaitResolving"
                       /\ call'[p].strict)
              /\ resolvedSerial' # resolvedSerial
                 => \/ /\ resolvedSerial' = Undef
                       /\ \E x \in returned' : x.call.op = "setAdbSerialOverride"
                    \/ /\ resolvingSerial.active
                       /\ ~resolvingSerial.strict
                       /\ ~resolvingSerial'.active
        /\ \A x \in returned' :
               x.via = "memo"
               => /\ x.call.strict
                  /\ ~x.res.threw
                  /\ resolvedSerial # Undef
                  /\ x.res.serial = resolvedSerial
                  /\ UNCHANGED <<resolvedSerial, resolvingSerial, call>> ]_vars

\* C11 witness: a strict call was answered from the memo with a serial that
\* is no longer online.
C11_Witness ==
    \E x \in returned :
        /\ x.via = "memo"
        /\ x.call.op = "resolve"
        /\ Truthy(x.res.serial)
        /\ x.res.serial.v \notin OnlineNow

Fetching == tool.name = "fetchUiElementsWithRetry"

\* C12: a command-execution failure of the dump or read-back command of a UI
\* fetch ends the fetch with that error handed to the caller, and no dump is
\* issued again after such a failure.
C12_CommandFailurePropagates ==
    Fetching
    => /\ tool.failed
          => /\ tool.pc = "done"
             /\ tool.result.threw
             /\ tool.result.error = ExecError
       /\ ~tool.retried

\* C13: fetchUiElementsWithRetry starts and completes at most `attempts`
\* fetches; every fetch before the latest one was judged unstable (the first
\* stable fetch ends the call); a call that returns hands back the latest
\* fetch, and when that one is unstable all `attempts` fetches were made; once
\* the last allowed fetch has returned the call returns, without an error.
C13_FirstStableOrLast ==
    (Fetching /\ tool.attempts > 0)
    => LET n == Len(tool.fetched)
       IN  /\ n <= tool.attempts
           /\ tool.attempt < tool.attempts
           /\ \A i \in 1..(n - 1) : shouldRetry(tool.fetched[i], tool.onlyInteractive)
           /\ (tool.pc = "done" /\ ~tool.result.threw)
              => /\ n >= 1
                 /\ tool.result.elements = tool.fetched[n]
                 /\ shouldRetry(tool.fetched[n], tool.onlyInteractive)
                    => n = tool.attempts
           /\ (n >= 1 /\ (n = tool.attempts
                          \/ ~shouldRetry(tool.fetched[n], tool.onlyInteractive)))
              => /\ tool.pc = "done"
                 /\ ~tool.result.threw
                 /\ tool.result.elements = tool.fetched[n]

\* C13 witness: three fetches, none stable, the call returned the third, which
\* differs from the first.
C13_Witness ==
    /\ Fetching
    /\ tool.pc = "done"
    /\ ~tool.result.threw
    /\ Len(tool.fetched) = DefaultAttempts
    /\ tool.attempts = DefaultAttempts
    /\ shouldRetry(tool.fetched[DefaultAttempts], tool.onlyInteractive)
    /\ tool.result.elements = tool.fetched[DefaultAttempts]
    /\ tool.fetched[1] # tool.fetched[DefaultAttempts]

\* C15: all commands of one fetchUiElementsWithRetry call are sent to the same
\* device serial, and the read-back command of a fetch is sent to the serial
\* its dump command was sent to.
C15_OneTargetPerFetch ==
    Fetching
    => /\ Cardinality(tool.targets) <= 1
       /\ (tool.pc = "awaitCommand" /\ tool.cmd = "cat")
          => tool.target = tool.dumpTarget

\* the class names 'progressbar', letter case aside
NamesProgressBar(class) ==
    \E i \in 0..(Len(class) - Len(PROGRESSBAR)) :
        \A j \in 1..Len(PROGRESSBAR) : toLowerCaseChar(class[i + j]) = PROGRESSBAR[j]

\* C14: a fetched list is judged unstable exactly when it is empty, or every
\* element's class contains 'progressbar' in any letter case, or
\* onlyInteractive is true and no element is clickable, checkable or
\* scrollable; so with onlyInteractive false or absent a list without
\* interactive elements that holds a non-progress element is stable.
C14_UnstableExactlyWhen ==
    (tool.name = "shouldRetry" /\ tool.pc = "judged")
    => LET e == tool.elements
           N == 1..Len(e)
           noneInteractive ==
               \A i \in N : ~e[i].clickable /\ ~e[i].checkable /\ ~e[i].scrollable
       IN  /\ tool.retry
              <=> \/ e = <<>>
                  \/ \A i \in N : NamesProgressBar(e[i].class)
                  \/ (tool.onlyInteractive = "true" /\ noneInteractive)
           /\ (/\ tool.onlyInteractive # "true"
               /\ noneInteractive
               /\ \E i \in N : ~NamesProgressBar(e[i].class))
              => ~tool.retry

\* C14 witness: onlyInteractive is absent, the list holds a progress bar
\* spelled in upper case and a non-progress element, nothing interactive, and
\* it was judged stable.
C14_Witness ==
    /\ tool.name = "shouldRetry"
    /\ tool.pc = "judged"
    /\ tool.onlyInteractive = "undefined"
    /\ Len(tool.elements) = 2
    /\ NamesProgressBar(tool.elements[1].class)
    /\ tool.elements[1].class # toLowerCase(tool.elements[1].class)
    /\ ~NamesProgressBar(tool.elements[2].class)
    /\ interactiveCount(tool.elements) = 0
    /\ ~tool.retry

Waiting == tool.name = "waitForElement"

\* what C16 says of every state of a waitForElement call
C16_WaitBounded ==
    (Waiting /\ tool.pc # "called")
    => /\ tool.timeoutMs >= 0
       /\ tool.intervalMs >= MinIntervalMs
       /\ tool.pc = "awaitFetch" => tool.began - tool.start <= tool.timeoutMs
       /\ tool.fetches * tool.intervalMs <= tool.timeoutMs + tool.intervalMs
       /\ (tool.pc = "done" /\ ~tool.threw /\ tool.element = NoElement)
          => ~tool.found

\* C16: a waitForElement call whose fetches return ends for every timeout and
\* interval (finite numbers or absent): the timeout is clamped to at least 0,
\* the interval to at least 50 ms, no fetch begins once the time elapsed
\* exceeds the clamped timeout, and a call that never saw a match returns
\* found = false without raising.
C16_WaitTerminates ==
    /\ []C16_WaitBounded
    /\ <>(Waiting /\ tool.pc = "done")

\* C16 witness: a call with interval 0 polled more than once, never saw a
\* match and returned found = false after the timeout.
C16_Witness ==
    /\ Waiting
    /\ tool.pc = "done"
    /\ tool.interval = Num(0)
    /\ tool.fetches > 1
    /\ ~tool.found
    /\ ~tool.threw
    /\ tool.elapsed > tool.timeoutMs

Tapping == tool.name = "tapElement"

\* C17: tapElement issues a tap command only for a selected element with
\* x2 > x1 and y2 > y1, and then at the element's center; for a selected
\* element with degenerate bounds (the zero rectangle included) it issues no
\* command and returns tapped = false without raising.
C17_TapOnlyValidBounds ==
    Tapping
    => LET b == tool.element.bounds
       IN  /\ tool.taps # {}
              => /\ tool.selected
                 /\ b.x2 > b.x1 /\ b.y2 > b.y1
                 /\ tool.taps = {<<tool.element.center.x, tool.element.center.y>>}
           /\ tool.tapped => tool.taps # {}
           /\ (tool.selected /\ ~(b.x2 > b.x1 /\ b.y2 > b.y1))
              => /\ tool.taps = {}
                 /\ tool.pc = "done"
                 /\ ~tool.tapped
                 /\ ~tool.threw
                 /\ tool.message = "Element bounds invalid; tap aborted."

\* C17 witness: the selected element has the zero rectangle; the call
\* returned tapped = false and issued no tap.
C17_Witness ==
    /\ Tapping
    /\ tool.pc = "done"
    /\ tool.selected
    /\ tool.element.bounds = defaultBounds
    /\ tool.taps = {}
    /\ ~tool.tapped

\* What each piece of Pieces is, read off its text: whether it is a node tag,
\* the integer its index attribute starts with (if any), its text attribute
\* and the rectangle its bounds attribute writes (if any)
PieceFacts ==
    <<[node |-> TRUE, indexed |-> FALSE, index |-> 0,
       text |-> <<"F", "i", "r", "s", "t">>, bounds |-> Bounds(0, 0, 1, 1)],
      [node |-> TRUE, indexed |-> TRUE, index |-> 2,
       text |-> <<>>, bounds |-> Bounds(0 - 3, 0, 0, 5)],
      [node |-> TRUE, indexed |-> TRUE, index |-> 0 - 3,
       text |-> <<>>, bounds |-> Bounds(0, 0, 0, 0)],
      [node |-> TRUE, indexed |-> TRUE, index |-> 7,
       text |-> <<"a", " ", "&", " ", "b">>, bounds |-> Bounds(0, 0, 0, 0)],
      [node |-> TRUE, indexed |-> FALSE, index |-> 0,
       text |-> <<>>, bounds |-> Bounds(1, 2, 4, 4)],
      [node |-> FALSE, indexed |-> FALSE, index |-> 0,
       text |-> <<>>, bounds |-> Bounds(0, 0, 0, 0)],
      [node |-> FALSE, indexed |-> FALSE, index |-> 0,
       text |-> <<>>, bounds |-> Bounds(0, 0, 0, 0)]>>

\* the facts of the node tags among the pieces ids, in document order
NodeFacts(ids) ==
    SelectSeq([k \in 1..Len(ids) |-> PieceFacts[ids[k]]], LAMBDA f : f.node)

\* C18: parseUIElements returns exactly one element per node tag, in document
\* order; an element whose tag has an index attribute that starts with an
\* integer gets that integer as index, and every other element gets its
\* 0-based position among all node tags of the dump, the tags with an
\* explicit index counted too.
C18_OneElementPerNodeTag ==
    (Parsed /\ tool.rect = NoRect) =>
        LET facts == NodeFacts(tool.ids)
        IN  /\ Len(tool.elements) = Len(facts)
            /\ \A k \in 1..Len(facts) :
                   /\ tool.elements[k].text = facts[k].text
                   /\ tool.elements[k].bounds = facts[k].bounds
                   /\ tool.elements[k].index =
                          IF facts[k].indexed THEN facts[k].index ELSE k - 1

\* a dump of an indexed node, a tag named nodes and a node without index:
\* two elements, the second with fallback index 1
C18_Witness ==
    /\ Parsed
    /\ tool.ids = <<2, 7, 1>>
    /\ Len(tool.elements) = 2
    /\ tool.elements[1].index = 2
    /\ tool.elements[2].index = 1

\* C19: every element produced by parseUIElements has a non-negative integer
\* index, also when the index attribute of its tag holds a signed or a
\* partially numeric value.
C19_IndexNonNegative ==
    Parsed => \A k \in 1..Len(tool.elements) : tool.elements[k].index \in Nat

\* C20: the center of every parsed element is the midpoint of its bounds with
\* a half rounded toward positive infinity (for coordinates in the range of
\* exactly represented integers): bounds [0,0][1,1] give {1,1}, a sum of -3
\* gives -1, and the fallback zero rectangle gives {0,0}.
C20_CenterIsRoundedMidpoint ==
    Parsed =>
        /\ tool.rect # NoRect =>
               /\ Len(tool.elements) = 1
               /\ tool.elements[1].bounds = tool.rect
        /\ \A k \in 1..Len(tool.elements) :
               LET b == tool.elements[k].bounds
                   c == tool.elements[k].center
               IN  /\ 2 * c.x - (b.x1 + b.x2) \in {0, 1}
                   /\ 2 * c.y - (b.y1 + b.y2) \in {0, 1}
                   /\ b = Bounds(0, 0, 1, 1) => c = [x |-> 1, y |-> 1]
                   /\ b.x1 + b.x2 = 0 - 3 => c.x = 0 - 1
                   /\ b.y1 + b.y2 = 0 - 3 => c.y = 0 - 1
                   /\ b = Bounds(0, 0, 0, 0) => c = [x |-> 0, y |-> 0]

\* the rectangle [-3,0][0,1] is parsed: its center is {-1,1}
C20_Witness ==
    /\ Parsed
    /\ tool.rect = Bounds(0 - 3, 0, 0, 1)
    /\ tool.elements[1].center = [x |-> 0 - 1, y |-> 1]

\* the rectangle each text of BoundsTexts writes, read off the text: the first
\* [x1,y1][x2,y2] of signed integers it contains, else the zero rectangle
BoundsExpected ==
    <<Bounds(0, 0, 0, 0),
      Bounds(0, 0, 0, 0),
      Bounds(1, 2, 3, 4),
      Bounds(0 - 1, 0 - 2, 0 - 3, 4),
      Bounds(0, 0, 0, 0),
      Bounds(0, 0, 0, 0),
      Bounds(0, 0, 0, 0),
      Bounds(0, 0, 0, 0),
      Bounds(0, 0, 5, 5),
      Bounds(1, 2, 3, 4)>>

\* the seven flags of an element, in the order of FlagKeys
FlagsOf(e) ==
    <<e.checkable, e.checked, e.clickable, e.enabled, e.focused, e.scrollable,
      e.selected>>

\* C21: parsing is total with degenerate defaults. A bounds attribute that is
\* absent or does not contain [x1,y1][x2,y2] of signed integers yields the
\* zero rectangle; each of the seven flags is true exactly when its attribute
\* is the literal text true; absent text, class, resource-id and content-desc
\* yield empty strings; the call returns one element for the tag.
C21_DegenerateDefaults ==
    (Parsed /\ tool.given.kind = "flags") =>
        /\ Len(tool.elements) = 1
        /\ LET e == tool.elements[1]
           IN  /\ e.bounds = BoundsExpected[tool.given.bounds]
               /\ \A j \in 1..Len(FlagKeys) :
                      FlagsOf(e)[j] = (/\ j = tool.given.flag
                                       /\ FlagTexts[tool.given.value] = Str(TRUE_TEXT))
               /\ e.text = <<>>
               /\ e.class = <<>>
               /\ e.resourceId = <<>>
               /\ e.contentDesc = <<>>

\* clickable="True" with bounds="[x,y][z,w]": not clickable, zero rectangle
C21_Witness ==
    /\ Parsed
    /\ tool.given.kind = "flags"
    /\ FlagKeys[tool.given.flag] = K_clickable
    /\ FlagTexts[tool.given.value] = Str(<<"T", "r", "u", "e">>)
    /\ BoundsTexts[tool.given.bounds] = Str(<<"[", "x", ",", "y", "]", "[", "z", ",", "w", "]">>)
    /\ ~tool.elements[1].clickable
    /\ tool.elements[1].bounds = Bounds(0, 0, 0, 0)

\* what the claim says each piece of TextSegments decodes to
SegmentExpected ==
    <<<<"a">>, <<"\"">>, <<"&">>, <<"<">>, <<">">>, <<"'">>, <<"A">>, <<"A">>,
      <<>>, <<"l", "t", ";">>>>

RECURSIVE JoinExpected(_)
JoinExpected(ids) ==
    IF ids = <<>> THEN <<>>
    ELSE SegmentExpected[Head(ids)] \o JoinExpected(Tail(ids))

\* C22: the entity decoder replaces &quot; &amp; &lt; &gt; &apos; by their
\* literal characters, &#65; and &#x41; by A, and an unrecognized named entity
\* such as &unknownEntity; by the empty string.
C22_EntitiesDecoded ==
    (Parsed /\ tool.given.kind = "text") =>
        tool.elements[1].text = JoinExpected(tool.given.ids)

\* the character whose code point is n
CodePointChar(n) ==
    IF n \in 32..126 THEN Ascii[n - 31] ELSE "\\u" \o ToString(n)

\* C23: a numeric reference &#N; or &#xH; decodes to the character whose code
\* point is N, also for N above 65535; no value is reduced modulo 2^16.
C23_CodePointKept ==
    (Parsed /\ tool.given.kind = "code") =>
        tool.elements[1].text = <<CodePointChar(tool.given.code)>>

\* the element field each string field of the criteria is compared with
ElementField(f) ==
    IF f \in {"text", "textContains"} THEN "text"
    ELSE IF f \in {"contentDesc", "contentDescContains"} THEN "contentDesc"
    ELSE IF f = "class" THEN "class"
    ELSE "resourceId"

\* C24: findElements returns exactly the elements that satisfy every criteria
\* field that is not undefined; a field given as the empty string counts as
\* specified: an empty text, contentDesc, class or resourceId criterion
\* matches only elements whose value of that field is empty.
C24_EmptyStringIsSpecified ==
    Found =>
        \A f \in {"text", "contentDesc", "class", "resourceId"} :
            tool.criteria[f] = Str(<<>>) =>
                \A k \in 1..Len(tool.result) : tool.result[k][ElementField(f)] = <<>>

\* whether s is t with some positions left out
RECURSIVE IsSubsequence(_, _)
IsSubsequence(s, t) ==
    IF s = <<>> THEN TRUE
    ELSE IF t = <<>> THEN FALSE
    ELSE IF Head(s) = Head(t) THEN IsSubsequence(Tail(s), Tail(t))
    ELSE IsSubsequence(s, Tail(t))

\* C25: findElements with every criteria field undefined returns the input
\* list unchanged; for every criteria the result is a subsequence of the
\* input, and applying the same criteria to the result returns the result.
C25_SubsequenceAndIdempotent ==
    Found =>
        /\ (\A f \in StringFields : tool.criteria[f] = Undef)
           /\ tool.criteria.checkable = "undefined"
           /\ tool.criteria.clickable = "undefined"
           => tool.result = tool.elements
        /\ IsSubsequence(tool.result, tool.elements)
        /\ tool.pc = "again" => tool.again = tool.result

\* two elements searched with only the flags set: both are returned, and
\* searching the result again returns both
C25_Witness ==
    /\ Found
    /\ tool.pc = "again"
    /\ Len(tool.elements) = 2
    /\ tool.criteria = [NoCriteria EXCEPT !.normalizeWhitespace = "true",
                                          !.caseInsensitive = "true"]
    /\ tool.again = tool.elements

\* The form of each value used in SpecFind under the two modifiers, written
\* out by hand: white space runs collapsed to one space and ends trimmed under
\* normalizeWhitespace, letters lower-cased under caseInsensitive
NormalForm(v, normalizeWhitespace, caseInsensitive) ==
    IF v = V_Empty THEN <<>>
    ELSE IF v = V_Plain THEN <<"a", " ", "b">>
    ELSE IF v = V_Part THEN (IF caseInsensitive THEN <<"b">> ELSE <<"B">>)
    ELSE IF v = V_Upper
    THEN (IF caseInsensitive THEN <<"a", " ", "b">> ELSE <<"A", " ", "B">>)
    ELSE IF v = V_Spaced
    THEN (IF normalizeWhitespace /\ caseInsensitive THEN <<"a", " ", "b">>
          ELSE IF normalizeWhitespace THEN <<"A", " ", "b">>
          ELSE IF caseInsensitive THEN <<" ", "a", " ", " ", "b", " ">>
          ELSE <<" ", "A", " ", " ", "b", " ">>)
    ELSE (IF normalizeWhitespace /\ caseInsensitive THEN <<"a", " ", "b">>
          ELSE IF normalizeWhitespace THEN <<"A", " ", "B">>
          ELSE IF caseInsensitive THEN <<"a", "\n", "b">>
          ELSE <<"A", "\n", "B">>)

\* the elements of tool.elements whose value compared with the string field f
\* agrees with the criterion of f, both taken in the form they have under the
\* modifiers given: contained in it for a Contains field, equal otherwise
Agreeing(f, normalizeWhitespace, caseInsensitive) ==
    LET wanted == NormalForm(tool.criteria[f].v, normalizeWhitespace, caseInsensitive)
        had(e) == NormalForm(e[ElementField(f)], normalizeWhitespace, caseInsensitive)
    IN  SelectSeq(tool.elements,
                  LAMBDA e : IF f \in {"textContains", "contentDescContains",
                                       "resourceIdContains"}
                             THEN includes(had(e), wanted)
                             ELSE had(e) = wanted)

\* the string field f is the only field of tool.criteria that constrains
OnlyField(f) ==
    /\ tool.criteria[f] # Undef
    /\ tool.criteria.checkable = "undefined"
    /\ tool.criteria.clickable = "undefined"

\* C26: for text, textContains, contentDesc and contentDescContains the
\* element value and the criterion are normalized by the same function before
\* comparison: white space runs collapsed and ends trimmed under
\* normalizeWhitespace, lower-cased under caseInsensitive, exact without them.
C26_ProseFieldsNormalized ==
    Found =>
        \A f \in {"text", "textContains", "contentDesc", "contentDescContains"} :
            OnlyField(f) =>
                tool.result = Agreeing(f, Flag(tool.criteria.normalizeWhitespace),
                                       Flag(tool.criteria.caseInsensitive))

\* text " A  b " under both flags finds the element whose text is "a b", and
\* not the one whose text is empty
C26_Witness ==
    /\ Found
    /\ tool.criteria = [NoCriteria EXCEPT !.text = Str(V_Spaced),
                                          !.normalizeWhitespace = "true",
                                          !.caseInsensitive = "true"]
    /\ Len(tool.elements) = 2
    /\ tool.elements[1].text = V_Plain
    /\ tool.elements[2].text = V_Empty
    /\ tool.result = <<tool.elements[1]>>

\* C27: class, resourceId and resourceIdContains comparisons case-fold both
\* sides under caseInsensitive and ignore normalizeWhitespace (stated for
\* criteria that are not the empty string).
C27_IdentifierFieldsFoldCaseOnly ==
    Found =>
        \A f \in {"class", "resourceId", "resourceIdContains"} :
            (OnlyField(f) /\ tool.criteria[f] # Str(<<>>)) =>
                tool.result = Agreeing(f, FALSE, Flag(tool.criteria.caseInsensitive))

\* class "A B" under both flags finds the element of class "a b" and not the
\* one of class " A  b "
C27_Witness ==
    /\ Found
    /\ tool.criteria = [NoCriteria EXCEPT !.class = Str(V_Upper),
                                          !.normalizeWhitespace = "true",
                                          !.caseInsensitive = "true"]
    /\ Len(tool.elements) = 2
    /\ tool.elements[1].class = V_Plain
    /\ tool.elements[2].class = V_Spaced
    /\ tool.result = <<tool.elements[1]>>

\* C28: normalizeWhitespace and caseInsensitive apply to every string
\* comparison made for a criteria object, class, resourceId and
\* resourceIdContains included (stated for criteria that are not the empty
\* string).
C28_ModifiersUniform ==
    Found =>
        \A f \in StringFields :
            (OnlyField(f) /\ tool.criteria[f] # Str(<<>>)) =>
                tool.result = Agreeing(f, Flag(tool.criteria.normalizeWhitespace),
                                       Flag(tool.criteria.caseInsensitive))

\* the positions of the interactive elements of a list, in order
RECURSIVE InteractiveAt(_, _)
InteractiveAt(elements, k) ==
    IF k > Len(elements) THEN <<>>
    ELSE IF elements[k].clickable \/ elements[k].checkable \/ elements[k].scrollable
    THEN <<k>> \o InteractiveAt(elements, k + 1)
    ELSE InteractiveAt(elements, k + 1)

\* the number of positions at which sub stands in s
Occurrences(s, sub) == Cardinality({i \in 1..Len(s) : StartsAt(s, sub, i)})

\* the first non-empty of text, contentDesc, resourceId and class
FirstLabel(e) ==
    LET labels == SelectSeq(<<e.text, e.contentDesc, e.resourceId, e.class>>,
                            LAMBDA l : l # <<>>)
    IN  IF labels = <<>> THEN <<>> ELSE Head(labels)

\* the true flags of e among clickable, checkable, scrollable, as listed
FlagList(e) ==
    LET named == <<[on |-> e.clickable, name |-> K_clickable],
                   [on |-> e.checkable, name |-> K_checkable],
                   [on |-> e.scrollable, name |-> K_scrollable]>>
        listed == SelectSeq(named, LAMBDA n : n.on)
    IN  IF listed = <<>> THEN <<>>
        ELSE <<" ", "(">>
             \o listed[1].name
             \o (IF Len(listed) > 1 THEN <<",", " ">> \o listed[2].name ELSE <<>>)
             \o (IF Len(listed) > 2 THEN <<",", " ">> \o listed[3].name ELSE <<>>)
             \o <<")">>

\* C29: generateSummary returns exactly `No UI elements found.` for the empty
\* list; otherwise it reports the total count and the count of elements that
\* are clickable or checkable or scrollable, followed, only when that count
\* is positive, by at most the first 8 interactive elements in list order,
\* numbered from 1, each labelled by the first non-empty of text,
\* contentDesc, resourceId, class, else #<index>, with its true flags.
C29_SummaryShape ==
    Summarized =>
        LET elements == tool.elements
            at == InteractiveAt(elements, 1)
            shown == IF Len(at) < 8 THEN Len(at) ELSE 8
            counts == FOUND \o IntChars(Len(elements)) \o ELEMENTS
                      \o IntChars(Len(at)) \o INTERACTIVE
            item(j) ==
                LET e == elements[at[j]]
                IN  IntChars(j) \o <<".", " ">>
                    \o (IF FirstLabel(e) # <<>> THEN FirstLabel(e)
                        ELSE <<"#">> \o IntChars(e.index))
                    \o FlagList(e)
        IN  IF elements = <<>> THEN tool.summary = NO_ELEMENTS
            ELSE /\ StartsAt(tool.summary, counts, 1)
                 /\ Len(at) = 0 => tool.summary = counts
                 /\ Len(at) > 0 =>
                        /\ StartsAt(tool.summary, ITEMS, Len(counts) + 1)
                        /\ Occurrences(tool.summary, <<" ", "|", " ">>) = shown - 1
                        /\ \A j \in 1..shown :
                               LET from == IF j = 1 THEN ITEMS ELSE <<" ", "|", " ">>
                                   to == IF j = shown THEN <<>> ELSE <<" ", "|", " ">>
                               IN  includes(tool.summary, from \o item(j) \o to)
                        /\ LET last == item(shown)
                           IN  StartsAt(tool.summary, last,
                                        Len(tool.summary) - Len(last) + 1)

\* nine interactive elements, the last one unlabelled: eight items are shown
C29_Witness ==
    /\ Summarized
    /\ Len(tool.elements) = 9
    /\ \A k \in 1..9 : tool.elements[k].clickable \/ tool.elements[k].checkable
    /\ tool.elements[8].text = <<>>
    /\ Occurrences(tool.summary, <<" ", "|", " ">>) = 7
    /\ includes(tool.summary,
                <<"8", ".", " ", "#", "2", " ", "(">> \o K_checkable
                \o <<",", " ">> \o K_scrollable \o <<")">>)

\* the devices the last enumeration listed with state 'device'
Ready == {d \in DOMAIN devices : devices[d] = "device"}

\* C30: only devices whose enumerated state is exactly 'device' are selected
\* or accepted. Every serial chosen by computeAdbSerialState or accepted as a
\* per-call target was listed with state 'device' in the enumeration made for
\* that decision; a device in another state (offline, unauthorized) neither
\* matches a requested serial nor counts toward the rule of exactly one
\* online device.
C30_OnlyStateDeviceSelected ==
    \A x \in returned :
        /\ Enumerated(x) =>
               LET r == x.computed
                   requested == r.requestedSerial
               IN  /\ r.serial # Null => r.serial.v \in Ready
                   /\ (Truthy(requested) /\ requested.v \notin Ready)
                      => r.source \notin {"override", "env"}
                   /\ (Cardinality(Ready) = 1
                       /\ ~(Truthy(requested) /\ requested.v \in Ready))
                      => /\ r.serial = Str(TheOnly(Ready))
                         /\ r.source \in {"auto", "fallback"}
                   /\ (Cardinality(Ready) = 0) => r.serial = Null
        /\ x.via = "assert" =>
               /\ x.ran => x.target.v \in Ready
               /\ x.call.req.serial.v \notin Ready => x.res.threw /\ ~x.ran

\* an unauthorized device was requested while one device is ready and another
\* offline: the ready one is chosen as fallback
C30_Witness ==
    \E x \in returned :
        /\ Enumerated(x)
        /\ Truthy(x.computed.requestedSerial)
        /\ devices[x.computed.requestedSerial.v] = "unauthorized"
        /\ \E d \in DOMAIN devices : devices[d] = "offline"
        /\ Cardinality(Ready) = 1
        /\ x.computed.source = "fallback"
        /\ x.computed.serial = Str(TheOnly(Ready))

\* the text attribute value the tag was written with
TextGiven == JoinSegments(tool.given.ids)

\* C38: entity decoding is a single left-to-right pass: text produced by a
\* replacement is never decoded again, so &amp;lt; decodes to &lt; and not to
\* <, and a string that contains no & is returned unchanged.
C38_SinglePass ==
    (Parsed /\ tool.given.kind = "text") =>
        LET text == tool.elements[1].text
        IN  /\ IndexOf(TextGiven, "&", 1) = 0 => text = TextGiven
            /\ TextGiven = <<"&", "a", "m", "p", ";", "l", "t", ";">>
               => text = <<"&", "l", "t", ";">>
            /\ (/\ Len(tool.given.ids) = 2
                /\ TextSegments[tool.given.ids[1]] = <<"&", "a", "m", "p", ";">>
                /\ IndexOf(TextSegments[tool.given.ids[2]], "&", 1) = 0)
               => text = <<"&">> \o TextSegments[tool.given.ids[2]]

\* text="&amp;lt;" was parsed to &lt;
C38_Witness ==
    /\ Parsed
    /\ tool.given.kind = "text"
    /\ TextGiven = <<"&", "a", "m", "p", ";", "l", "t", ";">>
    /\ tool.elements[1].text = <<"&", "l", "t", ";">>

\* the delays between attempts the call has waited or is waiting: every delay
\* that ended advanced the attempt counter by one
RetryDelays == tool.attempt + (IF tool.pc = "delay" THEN 1 ELSE 0)

\* C39: fetchUiElementsWithRetry with attempts <= 0 returns an empty list
\* without issuing any device command; with attempts n >= 1 it waits the delay
\* only between attempts: at most n - 1 delays, none after the last attempt
\* and none after a stable fetch.
C39_DelaysOnlyBetweenAttempts ==
    Fetching =>
        /\ (tool.attempts <= 0 /\ tool.pc # "idle")
           => /\ tool.pc = "done"
              /\ tool.result = NoResult
              /\ tool.cmd = "none"
              /\ tool.targets = {}
              /\ tool.fetched = <<>>
        /\ tool.attempts >= 1 => RetryDelays <= tool.attempts - 1
        /\ tool.pc = "delay"
           => /\ Len(tool.fetched) < tool.attempts
              /\ Len(tool.fetched) = RetryDelays
              /\ shouldRetry(tool.fetched[Len(tool.fetched)], tool.onlyInteractive)
        /\ (tool.pc = "done" /\ ~tool.result.threw /\ tool.attempts >= 1)
           => RetryDelays = Len(tool.fetched) - 1

\* three attempts, the third fetch stable: the call returned after two delays
C39_Witness ==
    /\ Fetching
    /\ tool.pc = "done"
    /\ tool.attempts = DefaultAttempts
    /\ Len(tool.fetched) = DefaultAttempts
    /\ RetryDelays = DefaultAttempts - 1
    /\ ~shouldRetry(tool.fetched[DefaultAttempts], tool.onlyInteractive)
    /\ tool.result.elements = tool.fetched[DefaultAttempts]

\* C35: tapElement selects candidates[index ?? 0], the candidates being the
\* clickable matches when preferClickable is not false and at least one match
\* is clickable, and all matches otherwise, in document order; with zero
\* matches or an index outside the candidate list it returns tapped = false
\* with element null and issues no tap command.
C35_SelectsCandidateAtIndex ==
    (Tapping /\ tool.fetched) =>
        LET clickable == SelectSeq(tool.matches, LAMBDA e : e.clickable)
            candidates == IF tool.preferClickable # "false" /\ clickable # <<>>
                          THEN clickable ELSE tool.matches
            at == IF tool.index = NoNum THEN 0 ELSE tool.index.n
        IN  IF at \in 0..(Len(candidates) - 1)
            THEN tool.selected /\ tool.element = candidates[at + 1]
            ELSE /\ ~tool.selected
                 /\ tool.pc = "done"
                 /\ ~tool.tapped
                 /\ ~tool.threw
                 /\ tool.taps = {}
                 /\ tool.message \in {"No matching elements found.",
                                      "Element index out of range."}

\* two matches, only the second clickable, no index and no preferClickable:
\* the second match was tapped
C35_Witness ==
    /\ Tapping
    /\ tool.fetched
    /\ tool.preferClickable = "undefined"
    /\ tool.index = NoNum
    /\ Len(tool.matches) = 2
    /\ ~tool.matches[1].clickable
    /\ hasValidBounds(tool.matches[1])
    /\ tool.matches[2].clickable
    /\ tool.element = tool.matches[2]
    /\ tool.tapped

\* when a waitForElement call returns found = true, its element is the first
\* element, in the order of the latest fetch, that passes the criteria and
\* every given state expectation
C37_FoundIsFirstSatisfying ==
    (Waiting /\ tool.pc = "done" /\ tool.found)
    => \E i \in 1..Len(tool.elements) :
           /\ tool.element = tool.elements[i]
           /\ Keeps(tool.elements[i], tool.criteria)
           /\ stateMatches(tool.elements[i], tool.expect)
           /\ \A j \in 1..(i - 1) :
                  ~(/\ Keeps(tool.elements[j], tool.criteria)
                    /\ stateMatches(tool.elements[j], tool.expect))

\* a fetch whose elements pass the criteria but none passes the state
\* expectations does not end the wait
C37_StateMismatchKeepsWaiting ==
    (/\ Waiting /\ tool.pc = "done" /\ ~tool.threw /\ tool.fetches > 0
     /\ \A i \in 1..Len(tool.elements) :
            ~(/\ Keeps(tool.elements[i], tool.criteria)
              /\ stateMatches(tool.elements[i], tool.expect)))
    => /\ ~tool.found
       /\ tool.elapsed > tool.timeoutMs

\* C37: a waitForElement call that has returned has performed at least one
\* fetch, also when its timeout is 0 or negative; when it returns found = true
\* its element is the first element, in the order of the latest fetch, that
\* passes the criteria and every given state expectation; an element that
\* passes the criteria but not the state expectations never ends the wait.
C37_FetchesOnceAndFindsFirst ==
    /\ (Waiting /\ tool.pc = "done") => tool.fetches >= 1
    /\ C37_FoundIsFirstSatisfying
    /\ C37_StateMismatchKeepsWaiting

Asserted == tool.name = "assertElement" /\ tool.pc = "done" /\ ~tool.threw

\* the positions of the fetched elements that pass the criteria
AssertMatching ==
    {i \in 1..Len(tool.elements) : Keeps(tool.elements[i], tool.criteria)}

\* C36: an assertElement call that returns passes exactly when, with
\* shouldExist false, no fetched element passes the criteria (whatever the
\* state expectations are) and, with shouldExist true or absent, some element
\* that passes the criteria satisfies every given state expectation; when
\* elements pass the criteria but none satisfies the expectations it fails
\* and its actual is the first element that passes the criteria.
C36_AssertPassesExactly ==
    Asserted
    => LET satisfying ==
               {i \in AssertMatching :
                    stateMatches(tool.elements[i], tool.expect)}
       IN  /\ tool.passed
              <=> IF tool.shouldExist = "false" THEN AssertMatching = {}
                  ELSE satisfying # {}
           /\ (tool.shouldExist # "false" /\ AssertMatching # {}
               /\ satisfying = {})
              => /\ ~tool.passed
                 /\ \E i \in AssertMatching :
                        /\ tool.actual = tool.elements[i]
                        /\ \A j \in AssertMatching : i <= j

\* C36 witness: with shouldExist absent and shouldBeEnabled true, the first
\* element that passes the criteria is disabled and the second is enabled; the
\* assertion passed with the second as actual.
C36_Witness ==
    /\ Asserted
    /\ tool.shouldExist = "undefined"
    /\ tool.expect = Expect("undefined", "true", "undefined")
    /\ tool.criteria.text = Str(V_Plain)
    /\ Len(tool.elements) = 2
    /\ AssertMatching = {1, 2}
    /\ ~tool.elements[1].enabled
    /\ tool.elements[2].enabled
    /\ tool.passed
    /\ tool.actual = tool.elements[2]

\* the callers suspended at `await resolvingSerial`
Awaiting == {p \in Procs : call[p].pc = "awaitResolving"}

\* the enumerations in flight that resolveAdbSerial started, by their starters
Enumerating == {p \in Awaiting : call[p].started}

\* C33: at most one enumeration started by resolveAdbSerial is in flight; the
\* callers that missed the memo all await the one resolution in flight; the
\* callers resumed by one resolution are handed the same outcome; and when a
\* resolution has settled, by a result or by an error, the in-flight marker is
\* null and no caller is left awaiting, so the next miss starts a new one.
C33_OneResolutionInFlight ==
    /\ Cardinality(Enumerating) <= 1
    /\ Awaiting # {} => (resolvingSerial.active /\ Cardinality(Enumerating) = 1)
    /\ resolvingSerial.active => Awaiting # {}
    /\ \A x, y \in returned :
           (x.via = "resolution" /\ y.via = "resolution")
           => /\ x.computed = y.computed
              /\ x.res = y.res
    /\ (\E x \in returned : x.via = "resolution")
       => /\ ~resolvingSerial.active
          /\ Awaiting = {}

\* C33 witness: a resolution that raised has just resumed its starter and a
\* caller that joined it, both with the same error, and the marker is null.
C33_Witness ==
    /\ \E x, y \in returned :
           /\ x.via = "resolution" /\ y.via = "resolution"
           /\ x.call.started /\ ~y.call.started
           /\ x.res.threw /\ y.res = x.res
    /\ ~resolvingSerial.active

\* x is a strict resolveAdbSerial call that raised
StrictRaised(x) == FromResolve(x) /\ x.call.strict /\ x.res.threw

\* what C34 says of every state: a strict call that has just raised leaves the
\* memo unset and no resolution in flight; a strict call that started an
\* enumeration which listed exactly one online device did not raise and was
\* handed that device
C34_ErrorNotMemoized ==
    /\ \A x \in returned :
           StrictRaised(x) => /\ resolvedSerial = Undef
                              /\ ~MemoHit(TRUE)
                              /\ ~resolvingSerial.active
    /\ \A x \in returned :
           ( /\ x.via = "resolution" /\ x.call.strict /\ x.call.started
             /\ x.computed.error.kind # "commandFailed"
             /\ Cardinality(OnlineNow) = 1 )
           => /\ ~x.res.threw
              /\ x.res.serial = Str(TheOnly(OnlineNow))

\* what C34 says of every step: the step in which a strict call raises leaves
\* the override as it was; from a state with the memo unset no call is
\* answered from the memo, and a strict call made while no resolution is in
\* flight starts an enumeration
C34_NextCallEnumerates ==
    /\ (\E x \in returned' : StrictRaised(x)) => serialOverride' = serialOverride
    /\ resolvedSerial = Undef => \A x \in returned' : x.via # "memo"
    /\ \A p \in Procs :
           ( /\ resolvedSerial = Undef /\ ~resolvingSerial.active
             /\ call[p].pc = "idle" /\ call'[p].pc = "awaitResolving"
             /\ call'[p].strict )
           => /\ call'[p].started
              /\ resolvingSerial'.active
              /\ resolvingSerial'.strict

\* C34: resolution errors are not cached. A strict resolveAdbSerial call that
\* raises leaves the memo unset and the override unchanged; the next strict
\* call is not answered from the memo but enumerates the devices again, and it
\* succeeds when that enumeration lists exactly one online device.
C34_ErrorsNotCached ==
    /\ []C34_ErrorNotMemoized
    /\ [][C34_NextCallEnumerates]_vars

\* C34 witness: with an override set, a strict call that started the
\* enumeration has just raised the error for a requested serial while no
\* device is online; the memo is unset and the override still set.
C34_Witness ==
    /\ Truthy(serialOverride)
    /\ resolvedSerial = Undef
    /\ \E x \in returned :
           /\ StrictRaised(x)
           /\ x.call.started
           /\ x.res.error.kind = "requestedNotFoundNoDevices"

\* C31: in a tapElement call without a per-call serial, the tap command is
\* given the serial the dump the call read was made with, whatever setDevice
\* calls of other invocations ran between the inspection and the tap.
C31_TapsWhereDumped ==
    ( /\ tool.name = "tapElementCommands"
      /\ tool.serial = Undef
      /\ tool.tapTarget # Undef )
    => tool.tapTarget = tool.dumpTarget

\* what C32 says of the step that follows the return of a setDevice call
\* that reported a selected serial and no error: a device command without a
\* per-call serial that is called in that step and answered at once (from the
\* memo) is run with the serial setDevice reported as selectedSerial
C32_NextCommandStep ==
    \A x \in returned, y \in returned' :
        ( /\ x.call.op = "setDevice" /\ x.via = "state"
          /\ Truthy(x.res.serial) /\ x.res.error.kind = "none"
          /\ y.call.op = "command" /\ PerCallSerial(y.call.arg) = Undef
          /\ y.via = "memo" )
        => /\ y.ran
           /\ y.target = x.res.serial

\* C32: the selectedSerial setDevice reports is the serial the next device
\* command without a per-call serial is run with, when the online devices are
\* the same and no other setDevice call came between; also when a strict
\* resolution was in flight while setDevice ran.
C32_SelectedIsNextTarget == [][C32_NextCommandStep]_vars

====
